---------------------------- MODULE Spec2Model ----------------------------
(***************************************************************************)
(* AI Updates Monitor: the change-detection pipeline of src/lambda.        *)
(*                                                                         *)
(* One run (lambda_handler -> run_monitor) fans process_source out over    *)
(* the source list, each task reading the DynamoDB state of its source,    *)
(* fetching, extracting, fingerprinting, comparing and writing the state;  *)
(* run_monitor then collects the change records, hands them to             *)
(* Notifier.send_digest in one call, builds the summary and closes the     *)
(* fetcher's HTTP session.                                                 *)
(*                                                                         *)
(* asyncio is cooperative: a task is only suspended at a real await, and   *)
(* the only real awaits of a source task are the HTTP request (session.get *)
(* and response.text); the boto3 calls of StateManager are synchronous.    *)
(* A source task is therefore two atomic steps: process_source_begin (up   *)
(* to the request being sent) and process_source_complete (from the        *)
(* response to the return of process_source).                              *)
(*                                                                         *)
(* Specifications: Spec (the invocations, over two sources), SpecGates     *)
(* (the same run over a source list longer than the gates are wide) and    *)
(* SpecGatesLive (the same under the event loop's scheduling), SpecHistory *)
(* (one source followed from run to run), SpecFetch, SpecFingerprint,      *)
(* SpecExtract and SpecDigest (Fetcher.fetch, compute_fingerprint, the     *)
(* adapters' extract and Notifier._build_message, each called once).       *)
(***************************************************************************)
EXTENDS Naturals, Sequences, FiniteSets, TLC

(***************************************************************************)
(* Python values.  None is a value of its own in every string-typed field; *)
(* an optional record is a sequence of length 0 (None) or 1.               *)
(***************************************************************************)
None == "None"
NoRecord == << >>
Some(r) == << r >>
IsNone(o) == o = NoRecord
Get(o) == o[1]

\* Python truthiness of an optional string: None and "" are falsy.
Truthy(s) == s # None /\ s # ""

\* Python's  a or b  on optional strings.
Or(a, b) == IF Truthy(a) THEN a ELSE b

Min(a, b) == IF a <= b THEN a ELSE b

\* seq[:n]
Take(seq, n) == SubSeq(seq, 1, Min(n, Len(seq)))

(***************************************************************************)
(* The strings that occur as ids and links, in Python's str order.         *)
(***************************************************************************)
StrOrder ==
    << "", "http://e/4", "i1", "i2", "i3", "i4", "i5", "i6", "l0", "l1", "l2", "l3",
       "p1", "p2", "p3", "p4", "p5", "p6", "p7", "p8", "p9" >>
StrRankOf ==
    [s \in {StrOrder[k] : k \in 1..Len(StrOrder)} |->
        CHOOSE k \in 1..Len(StrOrder) : StrOrder[k] = s]
StrRank(s) == StrRankOf[s]
StrLeq(a, b) == StrRank(a) <= StrRank(b)

(***************************************************************************)
(* Text is a sequence of characters.                                       *)
(***************************************************************************)
IsSpace(c) == c \in {" ", "\t", "\n"}
LowerChar(c) ==
    CASE c = "F" -> "f"
      [] c = "B" -> "b"
      [] OTHER -> c

RECURSIVE Strip(_)
\* str.strip()
Strip(t) ==
    IF t = << >> THEN t
    ELSE IF IsSpace(Head(t)) THEN Strip(Tail(t))
    ELSE IF IsSpace(t[Len(t)]) THEN Strip(SubSeq(t, 1, Len(t) - 1))
    ELSE t

RECURSIVE Collapse(_)
\* " ".join(text.split()) on stripped text: every run of whitespace becomes one space
Collapse(t) ==
    IF t = << >> THEN t
    ELSE IF IsSpace(Head(t))
         THEN IF Tail(t) # << >> /\ IsSpace(Head(Tail(t)))
              THEN Collapse(Tail(t))
              ELSE << " " >> \o Collapse(Tail(t))
         ELSE << Head(t) >> \o Collapse(Tail(t))

Lower(t) == [k \in 1..Len(t) |-> LowerChar(t[k])]

\* fingerprint._normalize_text
_normalize_text(text) ==
    IF text = << >> THEN << >> ELSE Lower(Collapse(Strip(text)))

(***************************************************************************)
(* compute_fingerprint.  SHA-256 is taken to be collision-free: the digest *)
(* of a byte string is modelled by that byte string, and the JSON          *)
(* serialisation with sort_keys (which is injective on the normalized      *)
(* list) by the list.                                                      *)
(***************************************************************************)
FingerprintMaxItems == 10

Sha256(kind, body) == [sha256 |-> kind, of |-> body]

EmptyFingerprint == Sha256("literal:empty", << >>)

\* faulty variant: the link is left out of the projection
NormalizedItemWithoutLink(item) ==
    [id |-> item.id, title |-> _normalize_text(item.title), link |-> ""]

NormalizedItem(item) ==
    [id |-> item.id, title |-> _normalize_text(item.title), link |-> item.link]

\* the key of  normalized.sort(key=lambda x: x.get("id") or x.get("link") or "")
SortKey(x) == Or(x.id, Or(x.link, ""))

RECURSIVE InsertSorted(_, _)
\* x goes after every element whose key is <= its own: the sort is stable
InsertSorted(x, sorted) ==
    IF sorted = << >> THEN << x >>
    ELSE IF StrLeq(SortKey(Head(sorted)), SortKey(x))
         THEN << Head(sorted) >> \o InsertSorted(x, Tail(sorted))
         ELSE << x >> \o sorted

RECURSIVE StableSort(_)
StableSort(seq) ==
    IF seq = << >> THEN << >>
    ELSE InsertSorted(seq[Len(seq)], StableSort(SubSeq(seq, 1, Len(seq) - 1)))

\* faulty variant: the empty list is hashed like any other
compute_fingerprint_no_sentinel(items) ==
    LET items_to_hash == Take(items, FingerprintMaxItems)
        normalized == [k \in 1..Len(items_to_hash) |->
                          NormalizedItem(items_to_hash[k])]
    IN  Sha256("json", StableSort(normalized))

compute_fingerprint(items) ==
    IF items = << >> THEN EmptyFingerprint
    ELSE LET items_to_hash == Take(items, FingerprintMaxItems)
             normalized == [k \in 1..Len(items_to_hash) |->
                               NormalizedItem(items_to_hash[k])]
         IN  Sha256("json", StableSort(normalized))


(***************************************************************************)
(* Fetched content.  feedparser.parse is a library: a document is modelled *)
(* by what it parses to, the bozo flag and the entries (or the exception   *)
(* the parser raises on it), an entry by the fields the adapters read.     *)
(***************************************************************************)
Entry(id, title, link, date) ==
    [id |-> id, title |-> title, link |-> link, date |-> date, broken |-> FALSE]

\* an entry on which the adapter's _parse_entry raises (a field of a type
\* the adapter does not expect)
BrokenEntry(id, title, link, date) ==
    [id |-> id, title |-> title, link |-> link, date |-> date, broken |-> TRUE]

\* a document: raises is the exception raised inside the try block of
\* extract (None: none)
Document(raises, bozo, entries) ==
    [raises |-> raises, bozo |-> bozo, entries |-> entries]

TitleFoo == << "F", "o", "o" >>
TitleBar == << " ", "B", "a", "r" >>
TitleBlank == << " " >>

DocEmpty == [raises |-> None, bozo |-> TRUE, entries |-> << >>]
DocA ==
    [raises |-> None, bozo |-> FALSE,
     entries |-> << Entry("i1", TitleFoo, "l1", "d1") >>]
DocB ==
    [raises |-> None, bozo |-> FALSE,
     entries |-> << Entry("", TitleBar, "l0", "d2"),
                    Entry("i6", TitleFoo, "l1", "d1"),
                    Entry("i5", TitleBlank, "l2", "d1"),
                    Entry("http://e/4", TitleFoo, "", "d1"),
                    Entry("i3", TitleBar, "l3", ""),
                    Entry("i2", TitleFoo, "l2", "d1"),
                    Entry("i1", TitleFoo, "l1", "d1"),
                    Entry("i1", TitleBar, "l1", "d2") >>]
Contents == {DocEmpty, DocA, DocB}

(***************************************************************************)
(* Extraction adapters (the feed adapters; the pipeline reads only the     *)
(* item list they return).                                                 *)
(***************************************************************************)
MaxItemsDefault == 10

\* BaseAdapter._get_max_items
_get_max_items(source) ==
    IF source.max_items = NoRecord THEN MaxItemsDefault ELSE Get(source.max_items)

Item(id, title, link, date) ==
    [id |-> id, title |-> title, link |-> link, date |-> date]

\* faulty variant: the title is not tested
RssAdapter_parse_entry_keeps_untitled(entry) ==
    Some(Item(Or(entry.id, entry.link), Strip(entry.title), entry.link, entry.date))

\* RssAdapter._parse_entry: NoRecord (None) when the entry is dropped, for
\* want of a title or because parsing it raised (except Exception: return None)
RssAdapter_parse_entry(entry) ==
    LET item_id == Or(entry.id, entry.link)
        title == Strip(entry.title)
    IN  IF entry.broken THEN NoRecord
        ELSE IF title = << >> THEN NoRecord
        ELSE Some(Item(item_id, title, entry.link, entry.date))

\* item_id.startswith("http")
StartsWithHttp(s) == s \in {"http://e/4"}

\* AtomAdapter._parse_entry
AtomAdapter_parse_entry(entry) ==
    LET title == Strip(entry.title)
        link == IF ~Truthy(entry.link) /\ StartsWithHttp(entry.id)
                THEN entry.id ELSE entry.link
    IN  IF entry.broken THEN NoRecord
        ELSE IF title = << >> THEN NoRecord
        ELSE Some(Item(entry.id, title, link, entry.date))

RECURSIVE Flatten(_)
\* the items of a sequence of optional items, in order
Flatten(opts) ==
    IF opts = << >> THEN << >>
    ELSE Head(opts) \o Flatten(Tail(opts))

\* RssAdapter.extract, when nothing raises in its try block
RssAdapter_extract(content, source) ==
    IF content.bozo /\ content.entries = << >> THEN << >>
    ELSE LET entries == Take(content.entries, _get_max_items(source))
         IN  Flatten([k \in 1..Len(entries) |-> RssAdapter_parse_entry(entries[k])])

\* AtomAdapter.extract, when nothing raises in its try block
AtomAdapter_extract(content, source) ==
    IF content.bozo /\ content.entries = << >> THEN << >>
    ELSE LET entries == Take(content.entries, _get_max_items(source))
         IN  Flatten([k \in 1..Len(entries) |-> AtomAdapter_parse_entry(entries[k])])

\* re.search(r'/([^/]+)$', item_id): what follows the last slash of the id
\* (of the ids of the model only "http://e/4" holds a slash)
TrailingSegment(item_id) == IF item_id = "http://e/4" THEN << "4" >> ELSE << >>

\* GitHubReleasesAtomAdapter._extract_tag_version (no title of the model
\* holds a version number, so the title falls through to title.strip())
_extract_tag_version(item_id, title) ==
    IF Truthy(item_id) /\ TrailingSegment(item_id) # << >>
    THEN TrailingSegment(item_id)
    ELSE IF title # << >> THEN Strip(title)
    ELSE << >>

UnknownRelease == << "Unknown Release" >>

\* GitHubReleasesAtomAdapter._parse_entry: an entry without title is kept,
\* titled by its tag or "Unknown Release"
GitHubReleasesAtomAdapter_parse_entry(entry) ==
    LET tag_version == _extract_tag_version(entry.id, entry.title)
        stripped == Strip(entry.title)
        title == IF stripped # << >> THEN stripped
                 ELSE IF tag_version # << >> THEN tag_version
                 ELSE UnknownRelease
    IN  IF entry.broken THEN NoRecord
        ELSE Some([id |-> entry.id, title |-> title, link |-> entry.link,
                   date |-> entry.date, tag |-> tag_version])

\* GitHubReleasesAtomAdapter.extract, when nothing raises in its try block
GitHubReleasesAtomAdapter_extract(content, source) ==
    IF content.bozo /\ content.entries = << >> THEN << >>
    ELSE LET entries == Take(content.entries, _get_max_items(source))
         IN  Flatten([k \in 1..Len(entries) |->
                         GitHubReleasesAtomAdapter_parse_entry(entries[k])])

\* The markup adapters.  BeautifulSoup is a library: a page is modelled by
\* the elements the selectors find in it (entries), an element by the text
\* of its title element (empty: none found), its href, its id attribute and
\* its date text.
\* HtmlArticlesAdapter._generate_id / HtmlChangelogAdapter._generate_id
_generate_id(prefix, title) == << prefix >> \o Lower(Collapse(Strip(title)))

\* the link made absolute: urljoin(base_url, link) unless it is one already
AbsoluteLink(base_url, link) ==
    IF link = "" \/ StartsWithHttp(link) THEN link ELSE base_url \o "/" \o link

\* HtmlArticlesAdapter._parse_item
HtmlArticlesAdapter_parse_item(element, base_url) ==
    LET title == Strip(element.title)
        link == AbsoluteLink(base_url, element.link)
    IN  IF element.broken THEN NoRecord
        ELSE IF title = << >> THEN NoRecord
        ELSE Some([id |-> IF link # "" THEN << link >> ELSE _generate_id("title:", title),
                   title |-> title, link |-> link, date |-> element.date])

\* `if item and item.get("title")` of the markup adapters' extract
KeptIfTitled(item) ==
    IF item # NoRecord /\ Get(item).title # << >> THEN item ELSE NoRecord

\* HtmlArticlesAdapter.extract, when nothing raises in its try block
HtmlArticlesAdapter_extract(content, source) ==
    IF content.entries = << >> THEN << >>
    ELSE LET elements == Take(content.entries, _get_max_items(source))
         IN  Flatten([k \in 1..Len(elements) |->
                 KeptIfTitled(HtmlArticlesAdapter_parse_item(elements[k], source.url))])

\* HtmlChangelogAdapter._parse_entry
HtmlChangelogAdapter_parse_entry(element, base_url) ==
    LET title == Strip(element.title)
    IN  IF element.broken THEN NoRecord
        ELSE IF title = << >> THEN NoRecord
        ELSE Some([id |-> IF element.id # "" THEN << element.id >>
                          ELSE _generate_id("version:", title),
                   title |-> Strip(Collapse(title)),
                   link |-> IF element.id # "" THEN base_url \o "#" \o element.id ELSE "",
                   date |-> element.date])

\* HtmlChangelogAdapter.extract, when nothing raises in its try block
HtmlChangelogAdapter_extract(content, source) ==
    IF content.entries = << >> THEN << >>
    ELSE LET elements == Take(content.entries, _get_max_items(source))
         IN  Flatten([k \in 1..Len(elements) |->
                 KeptIfTitled(HtmlChangelogAdapter_parse_entry(elements[k], source.url))])

\* the registry _ADAPTERS of adapters/__init__.py
_ADAPTERS == {"rss", "atom", "github_releases_atom", "html_articles", "html_changelog"}

\* get_adapter raises ValueError for a type that is not registered
get_adapter_raises(adapter_type) == adapter_type \notin _ADAPTERS

\* how a call ends: it returns a value or raises an exception
Return(value) == [raised |-> None, value |-> value]
Raise(exception) == [raised |-> exception, value |-> NoRecord]

\* the try block of extract of the adapter: the parser raises, or the
\* adapter goes through the entries
extract_try(adapter_type, content, source) ==
    IF content.raises # None THEN Raise(content.raises)
    ELSE Return(
        CASE adapter_type = "rss" -> RssAdapter_extract(content, source)
          [] adapter_type = "atom" -> AtomAdapter_extract(content, source)
          [] adapter_type = "github_releases_atom" ->
                GitHubReleasesAtomAdapter_extract(content, source)
          [] adapter_type = "html_articles" -> HtmlArticlesAdapter_extract(content, source)
          [] adapter_type = "html_changelog" -> HtmlChangelogAdapter_extract(content, source))

\* faulty variant: no except clause
extract_uncaught(adapter_type, content, source) ==
    extract_try(adapter_type, content, source)

\* extract of the adapter: the try block and `except Exception: return []`
extract(adapter_type, content, source) ==
    LET tried == extract_try(adapter_type, content, source)
    IN  IF tried.raised = None THEN tried ELSE Return(<< >>)

\* items = get_adapter(adapter_type).extract(content, source)
Extract(adapter_type, content, source) == extract(adapter_type, content, source).value

(***************************************************************************)
(* The source list of config/sources.yaml.  A source is a dict: a key the  *)
(* file does not give is None here (source["url"] then raises KeyError).   *)
(***************************************************************************)
Source(id, adapter, url, org) ==
    [id |-> id, adapter |-> adapter, url |-> url, org |-> org,
     name |-> None, max_items |-> NoRecord]

SourceConfigs ==
    { << Source("s1", "rss", "u1", "OrgB"), Source("s2", "atom", "u2", "OrgA") >>,
      << Source("s1", "rss", "u1", "OrgB"), Source("s2", "jsonfeed", "u2", None) >>,
      << Source("s1", "rss", "u1", "OrgB"), Source("s2", "atom", None, "OrgA") >> }

(***************************************************************************)
(* Bounds of the model.                                                    *)
(***************************************************************************)
MaxRuns == 2
\* the invocations over which one source is followed
MaxRunsFollowed == 3
\* the length of a source list longer than the gates are wide
ManySources == 12
\* the length of the item lists a function is applied to on its own (after
\* the optional padding)
MaxListLen == 2

(***************************************************************************)
(* What the environment can answer.                                        *)
(***************************************************************************)
\* the (ETag, Last-Modified) headers of a 200 response
Validators == { << "E1", "L1" >>, << None, None >> }

\* What aiohttp answers to session.get(url, headers): the exception it raises
\* (raises; None: it returns a response), the status of the response, the
\* exception response.text() raises (text_raises; None: it returns the body),
\* the body and the ETag and Last-Modified headers.
Response(raises, status, text_raises, body, etag, last_modified) ==
    [raises |-> raises, status |-> status, text_raises |-> text_raises,
     body |-> body, etag |-> etag, last_modified |-> last_modified]

\* asyncio.TimeoutError, aiohttp.ClientError, any other Exception
Exceptions == {"TimeoutError", "ClientError", "Exception"}

Statuses == {200, 204, 304, 399, 400, 500}

Responses ==
    {Response(e, 0, None, DocEmpty, None, None) : e \in Exceptions}
        \cup {Response(None, st, e, c, v[1], v[2]) :
                 st \in Statuses, e \in Exceptions \cup {None},
                 c \in Contents, v \in Validators}

\* the responses a run of the monitor draws from: 304, 500, and 200 with
\* each document and each pair of validators
RunResponses ==
    {Response(None, 304, None, DocEmpty, None, None),
     Response(None, 500, None, DocEmpty, None, None)}
        \cup {Response(None, 200, None, c, v[1], v[2]) :
                 c \in Contents, v \in Validators}

\* the result dicts of Fetcher.fetch (a dict is a record of its keys)
NotModified == [not_modified |-> TRUE]
ErrorResult(message) == [error |-> message]
Content(body, etag, last_modified) ==
    [content |-> body, etag |-> etag, last_modified |-> last_modified,
     content_type |-> ""]

\* fetch, lines 65-96: the try block
Fetcher_fetch_try(r) ==
    IF r.raises # None THEN Raise(r.raises)
    ELSE IF r.status = 304 THEN Return(NotModified)
    ELSE IF r.status >= 400 THEN Return(ErrorResult(<< "HTTP", r.status >>))
    ELSE IF r.text_raises # None THEN Raise(r.text_raises)
    ELSE Return(Content(r.body, r.etag, r.last_modified))

\* faulty variant: no except clause
Fetcher_fetch_uncaught(r) == Fetcher_fetch_try(r)

\* fetch: the try block and its except clauses
Fetcher_fetch(r) ==
    LET tried == Fetcher_fetch_try(r)
    IN  IF tried.raised = None THEN tried
        ELSE IF tried.raised = "TimeoutError"
        THEN Return(ErrorResult(<< "Request timed out" >>))
        ELSE IF tried.raised = "ClientError"
        THEN Return(ErrorResult(<< "Client error", tried.raised >>))
        ELSE Return(ErrorResult(<< "Unexpected error", tried.raised >>))

\* fetch_result.get("not_modified") and fetch_result.get("error"), as
\* process_source tests them
IsNotModified(fetch_result) ==
    "not_modified" \in DOMAIN fetch_result /\ fetch_result.not_modified
HasError(fetch_result) ==
    "error" \in DOMAIN fetch_result /\ fetch_result.error # << >>

\* the result of the 500 response
FetchError == Fetcher_fetch(Response(None, 500, None, DocEmpty, None, None)).value

FetchResults == {Fetcher_fetch(r).value : r \in RunResponses}

\* a boto3 call: done, botocore ClientError, or another exception
\* (BotoCoreError and its subclasses are not ClientError)
StoreOutcomes == {"ok", "client_error", "raised"}

\* sns.publish: done, ClientError, or another exception
PublishOutcomes == {"ok", "client_error", "raised"}

(***************************************************************************)
(* State.                                                                  *)
(***************************************************************************)
VARIABLES
    sources,        \* the parsed source list (fixed by the deployment)
    table,          \* the DynamoDB table: source_id -> optional item
    now,            \* datetime.now(timezone.utc), a logical clock
    runs,           \* invocations of lambda_handler so far
    pc,             \* where the current invocation stands
    task,           \* per position of the source list: its process_source task
    prior,          \* per position: the items the previous run extracted and wrote, if any
    wrote,          \* per position: the items this run extracted and wrote, if any
    session,        \* Fetcher._session: "none", "open" or "closed"
    permits,        \* free permits of run_monitor's semaphore
    fetch_permits,  \* free permits of Fetcher._semaphore
    digests,        \* the arguments of the send_digest calls of this run
    publish,        \* how sns.publish ended in this run (None: not called)
    returning,      \* what run_monitor is about to return or raise
    response,       \* what lambda_handler returned for the last invocation
    history,        \* per position that is followed from run to run: what
                    \* earlier runs did with the source (see NoHistory)
    applied         \* the last call of a function taken on its own: its
                    \* arguments and what it returned (None: no call)

\* the state of the invocations
run_vars == << sources, table, now, runs, pc, task, prior, wrote, session, permits,
               fetch_permits, digests, publish, returning, response, history >>

vars == << run_vars, applied >>

SourceIds == {"s1", "s2"}
Tasks == DOMAIN sources

SemaphoreLimit == 10
FetcherConcurrency == 10
TopItems == 5

\* faulty variant: the gate admits a task whatever its value
Semaphore_locked_never(value) == FALSE

\* asyncio.Semaphore: `async with` suspends the task while the value is 0
Semaphore_locked(value) == value = 0

\* faulty variant: leaving the block does not give the permit back
Semaphore_release_leaks(value) == value

\* asyncio.Semaphore.release, on leaving the `async with` block on any path
Semaphore_release(value) == value + 1

\* What is remembered of a source from run to run (it is not state of the
\* program): undelivered, the items of the source when its change record
\* went into a digest that was not delivered, in the last run; changed_key,
\* the id (else link) of the first item in the most recent run that found
\* the fingerprint changed and stored it; written, the validators of the
\* response and the items extracted in the most recent run whose state
\* write succeeded.
NoHistory == [undelivered |-> NoRecord, changed_key |-> NoRecord, written |-> NoRecord]

PendingTask ==
    [pc |-> "pending", pre |-> NoRecord, read |-> None, prev_state |-> NoRecord,
     request |-> NoRecord, fetch_result |-> NoRecord, items |-> << >>,
     write |-> None, outcome |-> None, result |-> NoRecord, escaped |-> FALSE,
     recovered |-> FALSE]

\* what is left of a task once gather has returned: its result (a change
\* record, None or the exception that escaped it), with how it ended
Returned(t) ==
    [PendingTask EXCEPT !.pc = "done", !.outcome = t.outcome, !.result = t.result,
                        !.escaped = t.escaped, !.recovered = t.recovered]

(***************************************************************************)
(* StateManager.                                                           *)
(***************************************************************************)
\* get_state: the item, None when there is none and None on ClientError
get_state(stored, outcome) ==
    IF outcome = "client_error" THEN NoRecord ELSE stored

\* the item update_state puts: a validator or key that is falsy is left out,
\* and put_item replaces the whole item
update_state_item(source_id, fingerprint, etag, last_modified, last_item_key, t) ==
    [source_id |-> source_id,
     fingerprint |-> fingerprint,
     last_seen_utc |-> t,
     etag |-> IF Truthy(etag) THEN etag ELSE None,
     last_modified |-> IF Truthy(last_modified) THEN last_modified ELSE None,
     last_item_key |-> IF Truthy(last_item_key) THEN last_item_key ELSE None]

\* faulty variant: nothing is put
update_state_nothing(stored, outcome, item) == stored

\* faulty variant: a validator the new item does not have is kept from the
\* stored one
update_state_merges(stored, outcome, item) ==
    IF outcome # "ok" THEN stored
    ELSE IF stored = NoRecord THEN Some(item)
    ELSE Some([item EXCEPT
                  !.etag = IF @ = None THEN Get(stored).etag ELSE @,
                  !.last_modified = IF @ = None THEN Get(stored).last_modified ELSE @])

\* update_state: the stored item afterwards (ClientError is logged, nothing is put)
update_state(stored, outcome, item) ==
    IF outcome = "ok" THEN Some(item) ELSE stored

(***************************************************************************)
(* Fetcher.                                                                *)
(***************************************************************************)
\* _get_session
_get_session(s) == IF s \in {"none", "closed"} THEN "open" ELSE s

\* faulty variant: If-Modified-Since is never sent
RequestHeadersEtagOnly(etag, last_modified) ==
    [if_none_match |-> IF Truthy(etag) THEN etag ELSE None,
     if_modified_since |-> None]

\* the conditional-GET headers fetch builds
RequestHeaders(etag, last_modified) ==
    [if_none_match |-> IF Truthy(etag) THEN etag ELSE None,
     if_modified_since |-> IF Truthy(last_modified) THEN last_modified ELSE None]

\* faulty variant: close leaves the session as it is
Fetcher_close_nothing(s) == s

\* close
Fetcher_close(s) == IF s = "open" THEN "closed" ELSE s

(***************************************************************************)
(* process_source.                                                         *)
(***************************************************************************)
\* source["id"], source["adapter"], source["url"] before the try
SourceKeyError(source) ==
    source.id = None \/ source.adapter = None \/ source.url = None

\* prev_state.get(field) if prev_state else None
PrevField(prev_state, field) ==
    IF IsNone(prev_state) THEN None ELSE Get(prev_state)[field]

PrevFingerprint(prev_state) ==
    IF IsNone(prev_state) THEN NoRecord ELSE Some(Get(prev_state).fingerprint)

\* items[0].get("id") or items[0].get("link")
LastItemKey(items) == Or(items[1].id, items[1].link)

\* faulty variant: is_new inverted
IsNewWhenSeenBefore(prev_fingerprint) == ~IsNone(prev_fingerprint)

\* "is_new": prev_fingerprint is None
IsNew(prev_fingerprint) == IsNone(prev_fingerprint)

\* faulty variant: the change record carries every item
ChangeRecordAllItems(source, items, prev_fingerprint) ==
    [source_id |-> source.id,
     org |-> IF source.org = None THEN "Unknown" ELSE source.org,
     name |-> IF source.name = None THEN source.id ELSE source.name,
     url |-> source.url,
     items |-> items,
     is_new |-> IsNone(prev_fingerprint)]

\* the dict process_source returns for a changed source
ChangeRecord(source, items, prev_fingerprint) ==
    [source_id |-> source.id,
     org |-> IF source.org = None THEN "Unknown" ELSE source.org,
     name |-> IF source.name = None THEN source.id ELSE source.name,
     url |-> source.url,
     items |-> Take(items, TopItems),
     is_new |-> IsNew(prev_fingerprint)]

\* faulty variant: the fingerprints never compare equal
NeverSameFingerprint(new_fingerprint, prev_fingerprint) == FALSE

\* new_fingerprint == prev_fingerprint
SameFingerprint(new_fingerprint, prev_fingerprint) ==
    Some(new_fingerprint) = prev_fingerprint

\* what is remembered of a source after process_source has returned p
Remember(h, p, fetch_result) ==
    [h EXCEPT !.changed_key = IF p.outcome = "changed" /\ p.write = "ok"
                              THEN Some(LastItemKey(p.items)) ELSE @,
              !.written = IF p.write = "ok"
                          THEN Some([etag |-> fetch_result.etag,
                                     last_modified |-> fetch_result.last_modified,
                                     items |-> p.items])
                          ELSE @]

\* What process_source has done when it returns: the outcome, the items
\* extracted, how update_state ended (write; None: not called), the change
\* record returned (result) and the item handed to put_item (put).
Skipped(outcome, items) ==
    [outcome |-> outcome, items |-> items, write |-> None,
     result |-> NoRecord, put |-> NoRecord]

\* faulty variant: the unchanged branch writes the fingerprint without the validators
UnchangedDropsValidators(source, items, new_fingerprint, fetch_result, write, t) ==
    [outcome |-> IF write = "raised" THEN "exception" ELSE "unchanged",
     items |-> items,
     write |-> write,
     result |-> NoRecord,
     put |-> Some(update_state_item(source.id, new_fingerprint, None, None, None, t))]

\* lines 81-90: same fingerprint, the validators are written, nothing is returned
Unchanged(source, items, new_fingerprint, fetch_result, write, t) ==
    [outcome |-> IF write = "raised" THEN "exception" ELSE "unchanged",
     items |-> items,
     write |-> write,
     result |-> NoRecord,
     put |-> Some(update_state_item(source.id, new_fingerprint, fetch_result.etag,
                                  fetch_result.last_modified, None, t))]

\* faulty variant: the fingerprint written is the one that was read
ChangedStoresPrevious(source, items, new_fingerprint, prev_fingerprint, fetch_result, write, t) ==
    [outcome |-> IF write = "raised" THEN "exception" ELSE "changed",
     items |-> items,
     write |-> write,
     result |-> IF write = "raised" THEN NoRecord
                ELSE Some(ChangeRecord(source, items, prev_fingerprint)),
     put |-> Some(update_state_item(
                 source.id,
                 IF IsNone(prev_fingerprint) THEN None ELSE Get(prev_fingerprint),
                 fetch_result.etag, fetch_result.last_modified, LastItemKey(items), t))]

\* lines 92-111: the state is written, then the change record is returned
Changed(source, items, new_fingerprint, prev_fingerprint, fetch_result, write, t) ==
    [outcome |-> IF write = "raised" THEN "exception" ELSE "changed",
     items |-> items,
     write |-> write,
     result |-> IF write = "raised" THEN NoRecord
                ELSE Some(ChangeRecord(source, items, prev_fingerprint)),
     put |-> Some(update_state_item(source.id, new_fingerprint, fetch_result.etag,
                                  fetch_result.last_modified, LastItemKey(items), t))]

\* faulty variant: an empty extraction is stored like an unchanged one
AfterFetchStoresEmpty(source, prev_state, fetch_result, write, t) ==
    IF get_adapter_raises(source.adapter) THEN Skipped("exception", << >>)
    ELSE LET items == Extract(source.adapter, fetch_result.content, source)
             new_fingerprint == compute_fingerprint(items)
             prev_fingerprint == PrevFingerprint(prev_state)
         IN  IF items = << >> \/ SameFingerprint(new_fingerprint, prev_fingerprint)
             THEN Unchanged(source, items, new_fingerprint, fetch_result, write, t)
             ELSE Changed(source, items, new_fingerprint, prev_fingerprint,
                          fetch_result, write, t)

\* lines 65-111: extract, fingerprint, compare
AfterFetch(source, prev_state, fetch_result, write, t) ==
    IF get_adapter_raises(source.adapter) THEN Skipped("exception", << >>)
    ELSE LET items == Extract(source.adapter, fetch_result.content, source)
             new_fingerprint == compute_fingerprint(items)
             prev_fingerprint == PrevFingerprint(prev_state)
         IN  IF items = << >> THEN Skipped("no_items", items)
             ELSE IF SameFingerprint(new_fingerprint, prev_fingerprint)
             THEN Unchanged(source, items, new_fingerprint, fetch_result, write, t)
             ELSE Changed(source, items, new_fingerprint, prev_fingerprint,
                          fetch_result, write, t)

\* faulty variant: a 304 refreshes last_seen_utc of the stored item
process_source_body_touches_on_304(source, prev_state, fetch_result, write, t) ==
    IF IsNotModified(fetch_result)
    THEN IF IsNone(prev_state) THEN Skipped("not_modified", << >>)
         ELSE [outcome |-> "not_modified", items |-> << >>, write |-> "ok",
               result |-> NoRecord,
               put |-> Some([Get(prev_state) EXCEPT !.last_seen_utc = t])]
    ELSE IF HasError(fetch_result) THEN Skipped("fetch_error", << >>)
    ELSE AfterFetch(source, prev_state, fetch_result, write, t)

\* lines 56-111: the body of process_source from the fetch result on
process_source_body(source, prev_state, fetch_result, write, t) ==
    IF IsNotModified(fetch_result) THEN Skipped("not_modified", << >>)
    ELSE IF HasError(fetch_result) THEN Skipped("fetch_error", << >>)
    ELSE AfterFetch(source, prev_state, fetch_result, write, t)

(***************************************************************************)
(* run_monitor.                                                            *)
(***************************************************************************)
RECURSIVE CollectChangesUntilFailure(_)
\* faulty variant: the loop stops at the first task that failed
CollectChangesUntilFailure(results) ==
    IF results = << >> THEN << >>
    ELSE LET r == Head(results)
         IN  IF r.escaped \/ r.outcome \in {"exception", "fetch_error"} THEN << >>
             ELSE (IF ~IsNone(r.result) THEN << Get(r.result) >> ELSE << >>)
                     \o CollectChangesUntilFailure(Tail(results))

RECURSIVE CollectChanges(_)
\* the loop over the results of gather: the change records, in task order
\* (an exception and None are no change)
CollectChanges(results) ==
    IF results = << >> THEN << >>
    ELSE LET r == Head(results)
         IN  (IF ~r.escaped /\ ~IsNone(r.result) THEN << Get(r.result) >> ELSE << >>)
                 \o CollectChanges(Tail(results))

RECURSIVE CountErrors(_)
\* errors: the results that are exceptions
CountErrors(results) ==
    IF results = << >> THEN 0
    ELSE (IF Head(results).escaped THEN 1 ELSE 0) + CountErrors(Tail(results))

\* faulty variant: one send_digest call per change record
DigestCallsPerSource(changes) ==
    [k \in 1..Len(changes) |-> << changes[k] >>]

\* the send_digest calls run_monitor makes: one, with every change, if any
DigestCalls(changes) ==
    IF changes # << >> THEN << changes >> ELSE << >>

\* faulty variant: the sources whose task raised are not counted as checked
SummaryWithoutFailed(srcs, changes, errors, start_time, end_time) ==
    [status |-> "success",
     sources_checked |-> Len(srcs) - errors,
     changes_detected |-> Len(changes),
     errors |-> errors,
     duration_seconds |-> end_time - start_time,
     timestamp |-> end_time]

\* the summary dict
Summary(srcs, changes, errors, start_time, end_time) ==
    [status |-> "success",
     sources_checked |-> Len(srcs),
     changes_detected |-> Len(changes),
     errors |-> errors,
     duration_seconds |-> end_time - start_time,
     timestamp |-> end_time]

\* faulty variant: no except clause, the exception of run_monitor escapes
lambda_handler_result_uncaught(ret) ==
    IF ret.kind = "summary"
    THEN [statusCode |-> 200, body |-> ret.summary]
    ELSE [raised |-> ret.error]

\* what lambda_handler returns (the body is the JSON text of this record)
lambda_handler_result(ret) ==
    IF ret.kind = "summary"
    THEN [statusCode |-> 200, body |-> ret.summary]
    ELSE [statusCode |-> 500, body |-> [error |-> ret.error]]

(***************************************************************************)
(* Initial state: an empty table, nothing invoked yet.                     *)
(***************************************************************************)
Init ==
    /\ sources \in SourceConfigs
    /\ table = [id \in SourceIds |-> NoRecord]
    /\ now = 0
    /\ runs = 0
    /\ pc = "idle"
    /\ task = [i \in DOMAIN sources |-> PendingTask]
    /\ prior = [i \in DOMAIN sources |-> NoRecord]
    /\ wrote = [i \in DOMAIN sources |-> NoRecord]
    /\ session = "none"
    /\ permits = SemaphoreLimit
    /\ fetch_permits = FetcherConcurrency
    /\ digests = << >>
    /\ publish = None
    /\ returning = NoRecord
    /\ response = NoRecord
    /\ history = << >>
    /\ applied = NoRecord

\* what a task leaves for the next run to compare with: the items it
\* extracted, when it wrote the state of its source
Wrote(items, write) ==
    IF write = "ok" THEN Some(items) ELSE NoRecord

(***************************************************************************)
(* lambda_handler is invoked: run_monitor loads the sources, creates the   *)
(* fetcher, the state manager and the notifier and starts the tasks.       *)
(***************************************************************************)
StartRunWithin(max_runs) ==
    /\ pc = "idle"
    /\ runs < max_runs
    /\ runs' = runs + 1
    /\ now' = now + 1
    /\ pc' = "gather"
    /\ prior' = wrote
    /\ wrote' = [i \in Tasks |-> NoRecord]
    /\ task' = [i \in Tasks |-> PendingTask]
    /\ session' = "none"
    /\ permits' = SemaphoreLimit
    /\ fetch_permits' = FetcherConcurrency
    /\ digests' = << >>
    /\ publish' = None
    /\ returning' = NoRecord
    /\ response' = NoRecord
    /\ UNCHANGED << applied, sources, table, history >>

StartRun == StartRunWithin(MaxRuns)

(***************************************************************************)
(* load_sources (or a constructor before the try) raises: run_monitor      *)
(* propagates and lambda_handler answers 500.                              *)
(***************************************************************************)
\* faulty variant: the failure is swallowed and the run reports on no source
StartRunFails_returns_summary ==
    /\ pc = "idle"
    /\ runs < MaxRuns
    /\ runs' = runs + 1
    /\ now' = now + 1
    /\ prior' = [i \in Tasks |-> NoRecord]
    /\ wrote' = [i \in Tasks |-> NoRecord]
    /\ task' = [i \in Tasks |-> PendingTask]
    /\ session' = "none"
    /\ digests' = << >>
    /\ publish' = None
    /\ returning' = NoRecord
    /\ response' = Some(lambda_handler_result(
                       [kind |-> "summary", summary |-> Summary(<< >>, << >>, 0, now, now)]))
    /\ history' = [i \in DOMAIN history |-> [history[i] EXCEPT !.undelivered = NoRecord]]
    /\ UNCHANGED << applied, sources, table, pc, permits, fetch_permits >>

StartRunFailsWithin(max_runs) ==
    /\ pc = "idle"
    /\ runs < max_runs
    /\ runs' = runs + 1
    /\ now' = now + 1
    /\ prior' = [i \in Tasks |-> NoRecord]
    /\ wrote' = [i \in Tasks |-> NoRecord]
    /\ task' = [i \in Tasks |-> PendingTask]
    /\ session' = "none"
    /\ digests' = << >>
    /\ publish' = None
    /\ returning' = NoRecord
    /\ response' = Some(lambda_handler_result([kind |-> "exception", error |-> "load_sources"]))
    /\ history' = [i \in DOMAIN history |-> [history[i] EXCEPT !.undelivered = NoRecord]]
    /\ UNCHANGED << applied, sources, table, pc, permits, fetch_permits >>

StartRunFails == StartRunFailsWithin(MaxRuns)

(***************************************************************************)
(* A source task from its start to the request being sent: acquires the    *)
(* gate, reads the prior state, enters fetch.  reads: how get_item can end.*)
(***************************************************************************)
process_source_begin_on(i, reads) ==
    /\ pc = "gather"
    /\ task[i].pc = "pending"
    /\ ~Semaphore_locked(permits)
    /\ LET source == sources[i]
       IN  IF SourceKeyError(source)
           THEN /\ task' = [task EXCEPT ![i] =
                       [@ EXCEPT !.pc = "done", !.outcome = "exception",
                                 !.escaped = TRUE, !.recovered = FALSE]]
                /\ UNCHANGED << session, permits, fetch_permits >>
           ELSE \E read \in reads :
                LET stored == table[source.id]
                    prev_state == get_state(stored, read)
                    began == [task[i] EXCEPT !.pre = stored, !.read = read]
                IN  IF read = "raised"
                    THEN /\ task' = [task EXCEPT ![i] =
                                [began EXCEPT !.pc = "done", !.outcome = "exception",
                                              !.recovered = TRUE]]
                         /\ UNCHANGED << session, permits, fetch_permits >>
                    ELSE /\ ~Semaphore_locked(fetch_permits)
                         /\ task' = [task EXCEPT ![i] =
                                [began EXCEPT
                                    !.pc = "fetching",
                                    !.prev_state = prev_state,
                                    !.request = Some(RequestHeaders(
                                        PrevField(prev_state, "etag"),
                                        PrevField(prev_state, "last_modified")))]]
                         /\ session' = _get_session(session)
                         /\ permits' = permits - 1
                         /\ fetch_permits' = fetch_permits - 1
    /\ UNCHANGED << applied, sources, table, now, runs, pc, prior, wrote, digests, publish,
                    returning, response, history >>

process_source_begin(i) == process_source_begin_on(i, StoreOutcomes)

(***************************************************************************)
(* A source task from the response to the return of process_source, the    *)
(* answer of the server being one of fetch_results and the outcome of the  *)
(* state write one of writes.                                              *)
(***************************************************************************)
process_source_complete_on(i, fetch_results, writes) ==
    /\ pc = "gather"
    /\ task[i].pc = "fetching"
    /\ \E fetch_result \in fetch_results, write \in writes :
          \E p \in {process_source_body(sources[i], task[i].prev_state, fetch_result, write, now)} :
              /\ task' = [task EXCEPT ![i] =
                     [@ EXCEPT !.pc = "done",
                               !.fetch_result = Some(fetch_result),
                               !.items = p.items,
                               !.write = p.write,
                               !.outcome = p.outcome,
                               !.result = p.result,
                               !.recovered =
                                   \/ p.outcome \in {"fetch_error", "exception"}
                                   \/ task[i].read = "client_error"
                                   \/ p.write = "client_error"]]
              /\ wrote' = [wrote EXCEPT ![i] = Wrote(p.items, p.write)]
              /\ table' = IF p.write = None THEN table
                          ELSE [table EXCEPT ![sources[i].id] =
                                   update_state(@, p.write, Get(p.put))]
              /\ history' = [k \in DOMAIN history |->
                     IF k = i THEN Remember(history[k], p, fetch_result) ELSE history[k]]
    /\ permits' = Semaphore_release(permits)
    /\ fetch_permits' = Semaphore_release(fetch_permits)
    /\ UNCHANGED << applied, sources, now, runs, pc, prior, session, digests, publish,
                    returning, response >>

process_source_complete(i) ==
    process_source_complete_on(i, FetchResults, StoreOutcomes)

(***************************************************************************)
(* gather has every result: run_monitor collects the changes, sends the    *)
(* digest when there is one and builds the summary.                        *)
(***************************************************************************)
Results == [i \in Tasks |-> task[i]]

\* send_digest returns True only when sns.publish went through (its result
\* is not read by run_monitor)
Delivered(p) == p = "ok"

\* what the next run can be compared with: the items of a task whose change
\* record was handed to a send_digest that did not deliver it
Undelivered(t, p) ==
    IF ~t.escaped /\ t.result # NoRecord /\ ~Delivered(p) THEN Some(t.items) ELSE NoRecord

\* faulty variant: gather returns as soon as one task has terminated
gather_returned_on_first == \E i \in Tasks : task[i].pc = "done"

\* await asyncio.gather(*tasks, return_exceptions=True) has returned: every
\* task has terminated, by a return or by an exception
gather_returned == \A i \in Tasks : task[i].pc = "done"

Notify ==
    /\ pc = "gather"
    /\ gather_returned
    /\ LET changes == CollectChanges(Results)
           errors == CountErrors(Results)
           summary == [kind |-> "summary",
                       summary |-> Summary(sources, changes, errors, now, now)]
       IN  IF changes # << >>
           THEN \E p \in PublishOutcomes :
                   /\ digests' = digests \o DigestCalls(changes)
                   /\ publish' = p
                   /\ returning' = IF p = "raised"
                                   THEN Some([kind |-> "exception", error |-> "publish"])
                                   ELSE Some(summary)
                   /\ history' = [i \in DOMAIN history |->
                          [history[i] EXCEPT !.undelivered = Undelivered(task[i], p)]]
           ELSE /\ returning' = Some(summary)
                /\ history' = [i \in DOMAIN history |->
                       [history[i] EXCEPT !.undelivered = NoRecord]]
                /\ UNCHANGED << digests, publish >>
    /\ task' = [i \in Tasks |-> Returned(task[i])]
    /\ pc' = "finally"
    /\ UNCHANGED << applied, sources, table, now, runs, prior, wrote, session, permits,
                    fetch_permits, response >>

(***************************************************************************)
(* The finally clause closes the fetcher; run_monitor returns or           *)
(* propagates and lambda_handler wraps the result.                         *)
(***************************************************************************)
Finally ==
    /\ pc = "finally"
    /\ session' = Fetcher_close(session)
    /\ response' = Some(lambda_handler_result(Get(returning)))
    /\ pc' = "idle"
    /\ UNCHANGED << applied, sources, table, now, runs, task, prior, wrote, permits,
                    fetch_permits, digests, publish, returning, history >>

Next ==
    \/ StartRun
    \/ StartRunFails
    \/ \E i \in Tasks : process_source_begin(i)
    \/ \E i \in Tasks : process_source_complete(i)
    \/ Notify
    \/ Finally

Spec == Init /\ [][Next]_vars

(***************************************************************************)
(* The gates under load: the same run over a source list longer than the   *)
(* gates are wide, every server answering with an error and the table      *)
(* answering every read.  gather starts the tasks in list order and a      *)
(* semaphore wakes its waiters first come, first served, so the tasks are  *)
(* admitted in list order.                                                 *)
(***************************************************************************)
LongSourceList ==
    [k \in 1..ManySources |-> Source(ToString(k), "rss", "u1", "OrgA")]

InitGates ==
    /\ sources = LongSourceList
    /\ table = [id \in {LongSourceList[k].id : k \in 1..ManySources} |-> NoRecord]
    /\ now = 0
    /\ runs = 0
    /\ pc = "idle"
    /\ task = [i \in DOMAIN sources |-> PendingTask]
    /\ prior = [i \in DOMAIN sources |-> NoRecord]
    /\ wrote = [i \in DOMAIN sources |-> NoRecord]
    /\ session = "none"
    /\ permits = SemaphoreLimit
    /\ fetch_permits = FetcherConcurrency
    /\ digests = << >>
    /\ publish = None
    /\ returning = NoRecord
    /\ response = NoRecord
    /\ history = << >>
    /\ applied = NoRecord

Admitted(i) ==
    /\ \A j \in 1..(i - 1) : task[j].pc # "pending"
    /\ process_source_begin_on(i, {"ok"})

Answered(i) == process_source_complete_on(i, {FetchError}, {"ok"})

NextGates ==
    \/ StartRun
    \/ \E i \in Tasks : Admitted(i)
    \/ \E i \in Tasks : Answered(i)
    \/ Notify
    \/ Finally

SpecGates == InitGates /\ [][NextGates]_vars

(***************************************************************************)
(* The same under the scheduling of the event loop: a task that can run is *)
(* run (a task at the head of the queue of a gate that has a permit is     *)
(* admitted, run_monitor goes on when gather has returned), and every      *)
(* request is answered or times out (aiohttp's total timeout).  A request  *)
(* under way stays so until it is answered, so that fairness towards each  *)
(* request gives the fairness towards the requests under way assumed here. *)
(***************************************************************************)
SpecGatesLive ==
    /\ SpecGates
    /\ WF_vars(\E i \in 1..ManySources : Admitted(i))
    /\ WF_vars(\E i \in 1..ManySources : Answered(i))
    /\ WF_vars(Notify)
    /\ WF_vars(Finally)

(***************************************************************************)
(* One source followed from run to run: the same invocations over a list   *)
(* of one source, with what earlier runs did with it remembered, the       *)
(* responses carrying both validators, one of them or none.                *)
(***************************************************************************)
FollowedSources == << Source("s1", "rss", "u1", "OrgB") >>

InitHistory ==
    /\ sources = FollowedSources
    /\ table = [id \in SourceIds |-> NoRecord]
    /\ now = 0
    /\ runs = 0
    /\ pc = "idle"
    /\ task = [i \in DOMAIN sources |-> PendingTask]
    /\ prior = [i \in DOMAIN sources |-> NoRecord]
    /\ wrote = [i \in DOMAIN sources |-> NoRecord]
    /\ session = "none"
    /\ permits = SemaphoreLimit
    /\ fetch_permits = FetcherConcurrency
    /\ digests = << >>
    /\ publish = None
    /\ returning = NoRecord
    /\ response = NoRecord
    /\ history = [i \in DOMAIN sources |-> NoHistory]
    /\ applied = NoRecord

FollowedValidators ==
    Validators \cup { << "E1", None >>, << None, "L1" >> }

FollowedFetchResults ==
    FetchResults
        \cup {Fetcher_fetch(Response(None, 200, None, c, v[1], v[2])).value :
                 c \in Contents, v \in FollowedValidators}

NextHistory ==
    \/ StartRunWithin(MaxRunsFollowed)
    \/ StartRunFailsWithin(MaxRunsFollowed)
    \/ \E i \in Tasks : process_source_begin(i)
    \/ \E i \in Tasks : process_source_complete_on(i, FollowedFetchResults, StoreOutcomes)
    \/ Notify
    \/ Finally

SpecHistory == InitHistory /\ [][NextHistory]_vars

(***************************************************************************)
(* A function taken on its own is called once, in the state before the     *)
(* first invocation, with the first source list.                           *)
(***************************************************************************)
InitAlone ==
    /\ Init
    /\ \A k \in DOMAIN sources :
          ~SourceKeyError(sources[k]) /\ ~get_adapter_raises(sources[k].adapter)

(***************************************************************************)
(* Fetcher.fetch taken on its own: one call, with any validators, answered *)
(* by any response.                                                        *)
(***************************************************************************)
Fetcher_fetch_call ==
    \E etag \in {None, "", "E1"}, last_modified \in {None, "", "L1"},
       r \in Responses :
        /\ applied = NoRecord
        /\ applied' = Some([fn |-> "fetch",
                            etag |-> etag,
                            last_modified |-> last_modified,
                            request |-> RequestHeaders(etag, last_modified),
                            response |-> r,
                            outcome |-> Fetcher_fetch(r)])
        /\ UNCHANGED run_vars

SpecFetch == InitAlone /\ [][Fetcher_fetch_call]_vars

(***************************************************************************)
(* compute_fingerprint taken on its own.  The lists: up to MaxListLen      *)
(* items whose ids, titles and links are drawn from small sets (ids and    *)
(* links can be empty and can repeat; two of the titles differ in case     *)
(* only), alone or after a padding of FingerprintMaxItems - 1 items, so    *)
(* that the list reaches past what compute_fingerprint retains.            *)
(***************************************************************************)
TitleLowerFoo == << "f", "o", "o" >>

ItemIds == {"", "i1"}
ItemTitles == {TitleFoo, TitleLowerFoo, TitleBar}
ItemLinks == {"", "l1"}

Items == {Item(id, title, link, "d1") :
             id \in ItemIds, title \in ItemTitles, link \in ItemLinks}

PadIds == << "p1", "p2", "p3", "p4", "p5", "p6", "p7", "p8", "p9" >>
Padding == [k \in 1..(FingerprintMaxItems - 1) |-> Item(PadIds[k], TitleFoo, "l2", "d1")]

ItemLists ==
    LET tails == UNION {[1..n -> Items] : n \in 0..MaxListLen}
    IN  tails \cup {Padding \o tail : tail \in tails}

compute_fingerprint_call ==
    \E items \in ItemLists :
        /\ applied = NoRecord
        /\ applied' = Some([fn |-> "compute_fingerprint",
                            items |-> items,
                            result |-> compute_fingerprint(items)])
        /\ UNCHANGED run_vars

SpecFingerprint == InitAlone /\ [][compute_fingerprint_call]_vars

(***************************************************************************)
(* extract taken on its own: each registered adapter, with the default     *)
(* max_items or max_items = 1, on a document of up to MaxListLen entries   *)
(* some of which have no title (none at all, or white space only) or       *)
(* cannot be parsed, or on a document on which the parser raises.          *)
(***************************************************************************)
EntryIds == {"", "http://e/4"}
EntryTitles == {TitleFoo, TitleBlank, << >>}
EntryLinks == {"", "l1"}

Entries ==
    {Entry(id, title, link, "d1") :
        id \in EntryIds, title \in EntryTitles, link \in EntryLinks}
        \cup {BrokenEntry("http://e/4", TitleFoo, "l1", "d1")}

\* (the bozo flag matters only when there are no entries: a flagged
\* document with entries is there with one entry)
Documents ==
    {Document(None, bozo, << >>) : bozo \in BOOLEAN}
        \cup {Document(None, TRUE, << entry >>) : entry \in Entries}
        \cup {Document(None, FALSE, entries) :
                  entries \in UNION {[1..n -> Entries] : n \in 1..MaxListLen}}
        \cup {Document("Exception", FALSE, << >>)}

extract_call ==
    /\ applied = NoRecord
    /\ \E adapter_type \in _ADAPTERS, content \in Documents,
          max_items \in {NoRecord, Some(1)} :
          LET source == [sources[1] EXCEPT !.max_items = max_items]
          IN  applied' = Some([fn |-> "extract",
                               adapter |-> adapter_type,
                               content |-> content,
                               source |-> source,
                               outcome |-> extract(adapter_type, content, source),
                               result |-> Extract(adapter_type, content, source)])
    /\ UNCHANGED run_vars

SpecExtract == InitAlone /\ [][extract_call]_vars

(***************************************************************************)
(* Notifier._build_message.  The body is the list `lines` (joined with     *)
(* newlines in the code), a line being modelled by its parts.  The         *)
(* organizations are compared as Python compares str: character by         *)
(* character, by code point, every capital before every small letter.      *)
(***************************************************************************)
Capitals == << "A", "B", "C", "G", "K", "N", "O", "R", "U", "W" >>
Smalls == << "a", "b", "c", "g", "k", "n", "o", "r", "u", "w" >>

\* the place of a letter in the alphabet (of the letters that occur)
Letter(ch) == CHOOSE k \in 1..Len(Capitals) : Capitals[k] = ch \/ Smalls[k] = ch
\* ord(ch), up to an increasing map
CodePoint(ch) ==
    IF \E k \in 1..Len(Capitals) : Capitals[k] = ch THEN Letter(ch)
    ELSE Len(Capitals) + Letter(ch)

\* the characters of the organization names
Spelling ==
    [org \in {"OrgA", "OrgB", "Unknown", "orgC"} |->
        CASE org = "OrgA" -> << "O", "r", "g", "A" >>
          [] org = "OrgB" -> << "O", "r", "g", "B" >>
          [] org = "Unknown" -> << "U", "n", "k", "n", "o", "w", "n" >>
          [] org = "orgC" -> << "o", "r", "g", "C" >>]

RECURSIVE SeqLess(_, _)
\* a < b for sequences of numbers, compared element by element
SeqLess(a, b) ==
    IF b = << >> THEN FALSE
    ELSE IF a = << >> THEN TRUE
    ELSE IF Head(a) # Head(b) THEN Head(a) < Head(b)
    ELSE SeqLess(Tail(a), Tail(b))

CodePoints(org) == [k \in 1..Len(Spelling[org]) |-> CodePoint(Spelling[org][k])]

\* Python's  a < b  on the names
StrLess(a, b) == SeqLess(CodePoints(a), CodePoints(b))

RECURSIVE FirstSeen(_, _)
\* the keys of by_org, in insertion order
FirstSeen(changes, seen) ==
    IF changes = << >> THEN << >>
    ELSE IF Head(changes).org \in seen THEN FirstSeen(Tail(changes), seen)
    ELSE << Head(changes).org >> \o FirstSeen(Tail(changes), seen \cup {Head(changes).org})

RECURSIVE InsertOrg(_, _)
InsertOrg(org, sorted) ==
    IF sorted = << >> THEN << org >>
    ELSE IF StrLess(org, Head(sorted)) THEN << org >> \o sorted
    ELSE << Head(sorted) >> \o InsertOrg(org, Tail(sorted))

\* faulty variant: the keys are not sorted
SortedInInsertionOrder(keys) == keys

RECURSIVE Sorted(_)
\* sorted(by_org.keys())
Sorted(keys) ==
    IF keys = << >> THEN << >>
    ELSE InsertOrg(keys[Len(keys)], Sorted(SubSeq(keys, 1, Len(keys) - 1)))

\* the lines of one item of a change
ItemLines(k, item) ==
    << << "item", k, item.title >> >>
        \o (IF item.link # "" THEN << << "Link", item.link >> >> ELSE << >>)
        \o (IF item.date # "" THEN << << "Date", item.date >> >> ELSE << >>)

\* the lines of one change: lines 106-129
ChangeLines(change) ==
    LET status == IF change.is_new THEN "[NEW SOURCE]" ELSE "[UPDATED]"
        items == Take(change.items, TopItems)
    IN  << << "change", status, change.name >>, << "URL", change.url >> >>
            \o (IF change.items # << >>
                THEN << << "Latest items:" >> >>
                        \o Flatten([k \in 1..Len(items) |-> ItemLines(k, items[k])])
                ELSE << >>)
            \o << << "" >> >>

\* by_org[org]
OfOrg(changes, org) == SelectSeq(changes, LAMBDA change : change.org = org)

\* the section of one organization: lines 101-129
SectionLines(org, changes) ==
    LET org_changes == OfOrg(changes, org)
    IN  << << "rule" >>, << "org", org >>, << "rule" >> >>
            \o Flatten([k \in 1..Len(org_changes) |-> ChangeLines(org_changes[k])])

\* Notifier._build_message (the time of the header is left out)
_build_message(changes) ==
    LET orgs == Sorted(FirstSeen(changes, {}))
    IN  << << "banner" >>, << "AI/ML UPDATES DIGEST" >>, << "banner" >>, << "" >>,
           << "Sources with changes:", Len(changes) >>, << "" >> >>
            \o Flatten([k \in 1..Len(orgs) |-> SectionLines(orgs[k], changes)])
            \o << << "banner" >>, << "footer" >>, << "banner" >> >>

(***************************************************************************)
(* _build_message taken on its own: up to MaxListLen change records, of    *)
(* any organization, new or updated, with one item or more than TopItems   *)
(* items.                                                                  *)
(***************************************************************************)
ManyItems ==
    << Item("i1", TitleFoo, "l1", "d1"), Item("i2", TitleBar, "", "d2"),
       Item("i3", TitleFoo, "l3", ""), Item("i4", TitleFoo, "l1", "d1"),
       Item("i5", TitleFoo, "l2", "d1"), Item("i6", TitleBar, "l0", "d1") >>

Organizations == DOMAIN Spelling

ChangeRecords ==
    {[source_id |-> "s1", org |-> org, name |-> name, url |-> "u1",
      items |-> Take(ManyItems, n), is_new |-> is_new] :
        org \in Organizations, name \in {"n1", "n2"},
        n \in {1, TopItems + 1}, is_new \in BOOLEAN}

build_message_call ==
    /\ applied = NoRecord
    /\ \E changes \in UNION {[1..n -> ChangeRecords] : n \in 1..MaxListLen} :
        /\ applied' = Some([fn |-> "_build_message",
                            changes |-> changes,
                            result |-> _build_message(changes)])
        /\ UNCHANGED run_vars

SpecDigest == InitAlone /\ [][build_message_call]_vars

(***************************************************************************)
(* Vocabulary of the properties.                                           *)
(***************************************************************************)
Done(i) == task[i].pc = "done"
\* the task read the table (it got past the source keys)
ReadState(i) == task[i].read # None
\* the fetch of the task has returned
Fetched(i) == task[i].fetch_result # NoRecord
FetchOf(i) == Get(task[i].fetch_result)
\* which of the three outcomes the fetch of the task returned
GotNotModified(i) == Fetched(i) /\ IsNotModified(FetchOf(i))
GotError(i) == Fetched(i) /\ ~IsNotModified(FetchOf(i)) /\ HasError(FetchOf(i))
GotContent(i) == Fetched(i) /\ ~IsNotModified(FetchOf(i)) /\ ~HasError(FetchOf(i))
\* the fetch returned content and the registered adapter extracted these items
ExtractedItems(i) ==
    IF GotContent(i)
          /\ ~get_adapter_raises(sources[i].adapter)
    THEN Extract(sources[i].adapter, FetchOf(i).content, sources[i])
    ELSE << >>
Stored(i) == table[sources[i].id]
\* the task got as far as its fetch (it ended in a way only a fetch leads to)
IssuedFetch(i) ==
    task[i].outcome \in {"not_modified", "fetch_error", "no_items", "unchanged", "changed"}
\* the task returned a change record (while pc = "gather" the task record still
\* holds what the task read, fetched and wrote)
HasResult(i) == ~task[i].escaped /\ task[i].result # NoRecord
\* run_monitor is past gather / has left its try block
AfterGather == pc = "finally" \/ (pc = "idle" /\ returning # NoRecord)
RunEnded == pc = "idle" /\ returning # NoRecord
\* the change records of the tasks, in source-list order
RECURSIVE RecordsFrom(_)
RecordsFrom(k) ==
    IF k > Len(sources) THEN << >>
    ELSE (IF HasResult(k) THEN << Get(task[k].result) >> ELSE << >>)
            \o RecordsFrom(k + 1)

(***************************************************************************)
(* C1 as stated: a source with no stored state always yields a change      *)
(* record with is_new = true, whatever content the fetch returns and       *)
(* whatever the adapter extracts from it.                                  *)
(***************************************************************************)
C1_FirstSeenAlwaysYieldsNew ==
    \A i \in Tasks :
        (/\ Done(i) /\ ReadState(i) /\ task[i].pre = NoRecord
         /\ GotContent(i)
         /\ ~get_adapter_raises(sources[i].adapter)
         /\ task[i].write # "raised")
            => (task[i].result # NoRecord /\ Get(task[i].result).is_new)

(***************************************************************************)
(* C1 amended: a source with no stored state yields a change record, with  *)
(* is_new = true, exactly when the fetch returns content, the adapter type *)
(* is registered, at least one item is extracted and no state-store call   *)
(* raises; otherwise it yields no record.                                  *)
(***************************************************************************)
C1_FirstSeenYieldsNewWhenItemsExtracted ==
    \A i \in Tasks :
        (Done(i) /\ ReadState(i) /\ task[i].pre = NoRecord)
            => IF /\ task[i].read # "raised"
                  /\ ExtractedItems(i) # << >>
                  /\ task[i].write # "raised"
               THEN /\ task[i].result # NoRecord
                    /\ Get(task[i].result).is_new = TRUE
                    /\ Get(task[i].result).source_id = sources[i].id
               ELSE task[i].result = NoRecord

C1_Witness ==
    \E i \in Tasks :
        /\ Done(i) /\ ReadState(i) /\ task[i].pre = NoRecord
        /\ ExtractedItems(i) # << >>
        /\ task[i].result # NoRecord
        /\ Get(task[i].result).is_new

(***************************************************************************)
(* C2: a fetch that returns NotModified or an Error ends the task with no  *)
(* change record, update_state is not called and the stored item of the    *)
(* source is the one from before the task.                                 *)
(***************************************************************************)
C2_NotModifiedOrErrorLeavesState ==
    \A i \in Tasks :
        (Done(i) /\ (GotNotModified(i) \/ GotError(i)))
            => /\ task[i].result = NoRecord
               /\ task[i].write = None
               /\ Stored(i) = task[i].pre

C2_Witness ==
    \E i, j \in Tasks :
        /\ Done(i) /\ GotNotModified(i)
        /\ task[i].pre # NoRecord /\ Stored(i) = task[i].pre
        /\ Done(j) /\ GotError(j)
        /\ task[j].pre # NoRecord /\ Stored(j) = task[j].pre

(***************************************************************************)
(* C3 as stated: two consecutive runs extract the same items, the fetch    *)
(* and the state writes succeed; then the second run finds the stored      *)
(* fingerprint, returns no change record and writes the validators of the  *)
(* second response and a fresh last_seen_utc.                              *)
(***************************************************************************)
SameItemsAsPriorRun(i) ==
    /\ prior[i] # NoRecord
    /\ Done(i)
    /\ ExtractedItems(i) = Get(prior[i])
    /\ task[i].write = "ok"

UnchangedRunEffect(i) ==
    /\ task[i].pre # NoRecord
    /\ compute_fingerprint(ExtractedItems(i)) = Get(task[i].pre).fingerprint
    /\ task[i].result = NoRecord
    /\ Stored(i) # NoRecord
    /\ Get(Stored(i)).fingerprint = Get(task[i].pre).fingerprint
    /\ Get(Stored(i)).etag = FetchOf(i).etag
    /\ Get(Stored(i)).last_modified = FetchOf(i).last_modified
    /\ Get(Stored(i)).last_seen_utc = now
    /\ Get(Stored(i)).last_seen_utc > Get(task[i].pre).last_seen_utc

C3_SameItemsNoChange ==
    \A i \in Tasks : SameItemsAsPriorRun(i) => UnchangedRunEffect(i)

(***************************************************************************)
(* C3 amended: the same, when the state read of the second run succeeds    *)
(* as well (a read that fails with ClientError is taken as no prior state  *)
(* and the source is reported as new).                                     *)
(***************************************************************************)
C3_SameItemsNoChangeWhenReadSucceeds ==
    \A i \in Tasks :
        (SameItemsAsPriorRun(i) /\ task[i].read = "ok") => UnchangedRunEffect(i)

C3_Witness ==
    \E i \in Tasks :
        /\ SameItemsAsPriorRun(i) /\ task[i].read = "ok"
        /\ task[i].outcome = "unchanged"
        /\ Get(task[i].pre).etag # FetchOf(i).etag
        /\ Get(Stored(i)).etag = FetchOf(i).etag

(***************************************************************************)
(* C4 as stated: a source with stored fingerprint H1 whose items now       *)
(* fingerprint to H2 # H1 yields a change record with is_new = false and   *)
(* the first 5 items at most, and the stored item then has fingerprint H2, *)
(* the validators of the response and the key of the first item.           *)
(***************************************************************************)
ChangedSincePrior(i) ==
    /\ Done(i)
    /\ task[i].pre # NoRecord
    /\ ExtractedItems(i) # << >>
    /\ compute_fingerprint(ExtractedItems(i)) # Get(task[i].pre).fingerprint

ChangedRunEffect(i) ==
    LET items == ExtractedItems(i)
        first == items[1]
    IN  /\ task[i].result # NoRecord
        /\ Get(task[i].result).is_new = FALSE
        /\ Len(Get(task[i].result).items) = (IF Len(items) < 5 THEN Len(items) ELSE 5)
        /\ Get(task[i].result).items = SubSeq(items, 1, Len(Get(task[i].result).items))
        /\ Stored(i) # NoRecord
        /\ Get(Stored(i)).fingerprint = compute_fingerprint(items)
        /\ Get(Stored(i)).fingerprint # Get(task[i].pre).fingerprint
        /\ Get(Stored(i)).etag = FetchOf(i).etag
        /\ Get(Stored(i)).last_modified = FetchOf(i).last_modified
        /\ Get(Stored(i)).last_item_key = (IF first.id # "" THEN first.id ELSE first.link)

C4_ChangedYieldsUpdate ==
    \A i \in Tasks : ChangedSincePrior(i) => ChangedRunEffect(i)

(***************************************************************************)
(* C4 amended: the same, when the state read and the state write of the    *)
(* task succeed.                                                           *)
(***************************************************************************)
C4_ChangedYieldsUpdateWhenStoreSucceeds ==
    \A i \in Tasks :
        (ChangedSincePrior(i) /\ task[i].read = "ok" /\ task[i].write = "ok")
            => ChangedRunEffect(i)

C4_Witness ==
    \E i \in Tasks :
        /\ ChangedSincePrior(i) /\ task[i].read = "ok" /\ task[i].write = "ok"
        /\ Len(ExtractedItems(i)) > 5
        /\ ExtractedItems(i)[1].id = ""
        /\ Get(Stored(i)).last_item_key = ExtractedItems(i)[1].link
        /\ Get(task[i].pre).etag # Get(Stored(i)).etag

(***************************************************************************)
(* C5 as stated: a change record is produced only when the new fingerprint *)
(* differs from the one stored for the source or nothing is stored, and    *)
(* is_new is true iff nothing was stored.                                  *)
(***************************************************************************)
C5_RecordOnlyOnStoredDifference ==
    \A i \in Tasks :
        (HasResult(i) /\ pc = "gather")
            => /\ \/ task[i].pre = NoRecord
                  \/ compute_fingerprint(task[i].items) # Get(task[i].pre).fingerprint
               /\ Get(task[i].result).is_new <=> (task[i].pre = NoRecord)

(***************************************************************************)
(* C5 amended: a change record is produced only when the new fingerprint   *)
(* differs from the one get_state returned or get_state returned nothing   *)
(* (no item stored, or the read failed with ClientError), and is_new is    *)
(* true iff get_state returned nothing; get_state returns the stored item  *)
(* whenever the read succeeds.                                             *)
(***************************************************************************)
C5_RecordOnlyOnReadDifference ==
    \A i \in Tasks :
        (HasResult(i) /\ pc = "gather")
            => /\ \/ task[i].prev_state = NoRecord
                  \/ compute_fingerprint(task[i].items)
                        # Get(task[i].prev_state).fingerprint
               /\ Get(task[i].result).is_new <=> (task[i].prev_state = NoRecord)
               /\ task[i].read \in {"ok", "client_error"}
               /\ task[i].read = "ok" => task[i].prev_state = task[i].pre
               /\ task[i].read = "client_error" => task[i].prev_state = NoRecord

C5_Witness ==
    \E i, j \in Tasks :
        /\ HasResult(i) /\ task[i].prev_state # NoRecord
        /\ ~Get(task[i].result).is_new
        /\ HasResult(j) /\ task[j].pre # NoRecord /\ task[j].read = "client_error"
        /\ Get(task[j].result).is_new

(***************************************************************************)
(* C6: a failing source neither cancels nor skips the others: when gather  *)
(* returns every task has run to its end, and every change record a task   *)
(* produced is in the digest handed to the notifier.                       *)
(***************************************************************************)
C6_FailureIsIsolated ==
    AfterGather
        => \A i \in Tasks :
              /\ Done(i)
              /\ HasResult(i)
                    => /\ Len(digests) = 1
                       /\ \E k \in 1..Len(digests[1]) :
                             digests[1][k] = Get(task[i].result)

C6_Witness ==
    \E i, j \in Tasks :
        /\ AfterGather
        /\ i < j
        /\ task[i].outcome \in {"exception", "fetch_error"}
        /\ HasResult(j)
        /\ digests = << << Get(task[j].result) >> >>

(***************************************************************************)
(* C7: send_digest is called at most once in a run, not before gather has  *)
(* returned, and exactly once, with all the change records of the run, iff *)
(* a task produced one.                                                    *)
(***************************************************************************)
C7_OneDigestPerRun ==
    /\ Len(digests) <= 1
    /\ pc = "gather" => digests = << >>
    /\ AfterGather
          => /\ (Len(digests) = 1) <=> (\E i \in Tasks : HasResult(i))
             /\ Len(digests) = 1 => digests[1] = RecordsFrom(1)

C7_Witness ==
    /\ AfterGather
    /\ Len(digests) = 1
    /\ Len(digests[1]) = 2

(***************************************************************************)
(* C8 as stated: when a source fails with a locally recovered error, the   *)
(* invocation returns a non-failure result whose errors count is > 0.      *)
(***************************************************************************)
\* the task met a fetch failure, a caught exception or a state-store ClientError
LocallyRecovered(i) == Done(i) /\ ~task[i].escaped /\ task[i].recovered

C8_LocalErrorsAreCounted ==
    (RunEnded /\ publish # "raised" /\ \E i \in Tasks : LocallyRecovered(i))
        => /\ Get(response).statusCode = 200
           /\ Get(response).body.errors > 0

(***************************************************************************)
(* C9 as stated: when send_digest fails to deliver, the run returns a      *)
(* summary that shows a degraded, non-success result and still counts      *)
(* every change record.                                                    *)
(***************************************************************************)
C9_FailedDigestIsDegraded ==
    (RunEnded /\ publish \in {"client_error", "raised"})
        => /\ Get(response).statusCode = 200
           /\ Get(response).body.status # "success"
           /\ Get(response).body.changes_detected = Len(RecordsFrom(1))

(***************************************************************************)
(* C10: no invocation ends with an open HTTP session: once run_monitor has *)
(* returned or propagated, the session the fetches opened is closed.       *)
(***************************************************************************)
C10_SessionClosedOnExit ==
    pc = "idle"
        => /\ session # "open"
           /\ (RunEnded /\ \E i \in Tasks : IssuedFetch(i)) => session = "closed"

C10_Witness ==
    /\ RunEnded
    /\ Get(returning).kind = "exception"
    /\ \E i \in Tasks : IssuedFetch(i)
    /\ session = "closed"

(***************************************************************************)
(* C11: at every instant of a run, however long the source list, at most   *)
(* SemaphoreLimit (10) tasks are inside process_source, admitted through   *)
(* the gate of run_monitor, and at most FetcherConcurrency (10) requests   *)
(* are in flight, admitted through the gate of the fetcher; each gate      *)
(* counts what it has admitted.                                            *)
(***************************************************************************)
\* the tasks inside process_with_semaphore's `async with semaphore`
InProgress == {i \in Tasks : task[i].pc = "fetching"}
\* the tasks inside fetch's `async with self._semaphore`, their request sent
InFlight == {i \in Tasks : task[i].pc = "fetching" /\ task[i].request # NoRecord}

C11_GatesBoundConcurrency ==
    /\ Cardinality(InProgress) <= 10
    /\ Cardinality(InFlight) <= 10
    /\ permits + Cardinality(InProgress) = SemaphoreLimit
    /\ fetch_permits + Cardinality(InFlight) = FetcherConcurrency

C11_Witness ==
    /\ Len(sources) > 10
    /\ Cardinality(InProgress) = 10
    /\ Cardinality(InFlight) = 10
    /\ \E i \in Tasks : task[i].pc = "pending"
    /\ \E i \in Tasks : task[i].pc = "done"

(***************************************************************************)
(* C12: Fetcher.fetch never raises and returns exactly one of three        *)
(* results: NotModified (the key not_modified alone, no body) for status   *)
(* 304; an Error with a message (the key error alone) for a status >= 400  *)
(* and for any exception raised by the request or by reading the body;     *)
(* Content (body and validators, no error) in every other case.            *)
(***************************************************************************)
IsFetchCall == applied # NoRecord /\ Get(applied).fn = "fetch"

\* the three shapes of a result dict
NotModifiedShape(d) == DOMAIN d = {"not_modified"} /\ d.not_modified = TRUE
ErrorShape(d) == DOMAIN d = {"error"} /\ d.error # << >>
ContentShape(d) == DOMAIN d = {"content", "etag", "last_modified", "content_type"}

\* the request or the reading of the body of a response below 400 failed
TransportFailed(r) ==
    \/ r.raises # None
    \/ r.status # 304 /\ r.status < 400 /\ r.text_raises # None

C12_FetchReturnsOneOfThree ==
    IsFetchCall
        => LET r == Get(applied).response
               out == Get(applied).outcome
               d == out.value
           IN  /\ out.raised = None
               /\ IF r.raises = None /\ r.status = 304 THEN NotModifiedShape(d)
                  ELSE IF TransportFailed(r) \/ r.status >= 400 THEN ErrorShape(d)
                  ELSE ContentShape(d) /\ d.content = r.body
                          /\ d.etag = r.etag /\ d.last_modified = r.last_modified
               /\ ~("content" \in DOMAIN d /\ "error" \in DOMAIN d)
               /\ "not_modified" \in DOMAIN d => "content" \notin DOMAIN d

C12_Witness ==
    /\ IsFetchCall
    /\ Get(applied).response.status = 200
    /\ Get(applied).response.text_raises = "Exception"
    /\ ErrorShape(Get(applied).outcome.value)

(***************************************************************************)
(* C13 as stated: whenever the stored item of a source holds an etag (a    *)
(* last_modified), the request process_source issues for it carries        *)
(* If-None-Match (If-Modified-Since) with that value, and a validator that *)
(* is not stored is not sent.                                              *)
(***************************************************************************)
\* the task has sent its request and run_monitor is still in gather
IssuedRequest(i) == pc = "gather" /\ task[i].request # NoRecord

\* the request of the task carries exactly the validators of this item
CarriesValidatorsOf(i, item) ==
    LET headers == Get(task[i].request)
    IN  /\ headers.if_none_match = PrevField(item, "etag")
        /\ headers.if_modified_since = PrevField(item, "last_modified")

C13_RequestCarriesStoredValidators ==
    \A i \in Tasks : IssuedRequest(i) => CarriesValidatorsOf(i, task[i].pre)

(***************************************************************************)
(* C13 amended: the request carries the validators of the stored item      *)
(* whenever the state read succeeds; when the read fails with ClientError  *)
(* the request carries neither header, whatever is stored.                 *)
(***************************************************************************)
C13_RequestCarriesReadValidators ==
    \A i \in Tasks :
        IssuedRequest(i)
            => /\ task[i].read \in {"ok", "client_error"}
               /\ task[i].read = "ok" => CarriesValidatorsOf(i, task[i].pre)
               /\ task[i].read = "client_error" => CarriesValidatorsOf(i, NoRecord)

C13_Witness ==
    \E i, j \in Tasks :
        /\ IssuedRequest(i) /\ task[i].read = "ok" /\ task[i].pre # NoRecord
        /\ Get(task[i].pre).etag = "E1"
        /\ Get(task[i].request).if_none_match = "E1"
        /\ Get(task[i].request).if_modified_since = "L1"
        /\ IssuedRequest(j) /\ task[j].read = "ok" /\ task[j].pre # NoRecord
        /\ Get(task[j].pre).etag = None
        /\ Get(task[j].request).if_none_match = None

(***************************************************************************)
(* C14 as stated: compute_fingerprint gives every permutation of an item   *)
(* list the fingerprint of the list.  (A permutation is a composition of   *)
(* exchanges of two positions, and the claim is about every list, so it is *)
(* stated for the exchanges.)                                              *)
(***************************************************************************)
IsFingerprintCall == applied # NoRecord /\ Get(applied).fn = "compute_fingerprint"

\* items with positions a and b exchanged
Exchange(items, a, b) ==
    [k \in 1..Len(items) |->
        IF k = a THEN items[b] ELSE IF k = b THEN items[a] ELSE items[k]]

C14_FingerprintIgnoresOrder ==
    IsFingerprintCall
        => LET items == Get(applied).items
           IN  \A a, b \in 1..Len(items) :
                  compute_fingerprint(Exchange(items, a, b)) = Get(applied).result

(***************************************************************************)
(* C15 as stated: replacing the title, the id or the link of an item among *)
(* the first max_items of a list by a different value changes the          *)
(* fingerprint of the list.                                                *)
(***************************************************************************)
\* the positions compute_fingerprint retains
Retained(items) == 1..Min(Len(items), FingerprintMaxItems)

\* the values an id, a title or a link is replaced by
ReplacementIds == ItemIds \cup {"i2", "p1"}
ReplacementTitles == ItemTitles \cup {<< "B", "a", "r" >>, << >>}
ReplacementLinks == ItemLinks \cup {"l2"}

WithId(items, k, v) == [items EXCEPT ![k] = [@ EXCEPT !.id = v]]
WithTitle(items, k, v) == [items EXCEPT ![k] = [@ EXCEPT !.title = v]]
WithLink(items, k, v) == [items EXCEPT ![k] = [@ EXCEPT !.link = v]]

C15_AnyReplacementChangesFingerprint ==
    IsFingerprintCall
        => LET items == Get(applied).items
               result == Get(applied).result
           IN  \A k \in Retained(items) :
                  /\ \A v \in ReplacementIds \ {items[k].id} :
                        compute_fingerprint(WithId(items, k, v)) # result
                  /\ \A v \in ReplacementTitles \ {items[k].title} :
                        compute_fingerprint(WithTitle(items, k, v)) # result
                  /\ \A v \in ReplacementLinks \ {items[k].link} :
                        compute_fingerprint(WithLink(items, k, v)) # result

(***************************************************************************)
(* C15 amended: replacing the id or the link of a retained item by a       *)
(* different value, or its title by a value that differs from it after     *)
(* normalization (strip, whitespace collapsed, lower case), changes the     *)
(* fingerprint; a title replaced by one with the same normalized form      *)
(* leaves the fingerprint as it is.                                        *)
(***************************************************************************)
C15_ReplacementChangesFingerprintUpToNormalization ==
    IsFingerprintCall
        => LET items == Get(applied).items
               result == Get(applied).result
           IN  \A k \in Retained(items) :
                  /\ \A v \in ReplacementIds \ {items[k].id} :
                        compute_fingerprint(WithId(items, k, v)) # result
                  /\ \A v \in ReplacementTitles :
                        (compute_fingerprint(WithTitle(items, k, v)) # result)
                            <=> (_normalize_text(v) # _normalize_text(items[k].title))
                  /\ \A v \in ReplacementLinks \ {items[k].link} :
                        compute_fingerprint(WithLink(items, k, v)) # result

C15_Witness ==
    /\ IsFingerprintCall
    /\ LET items == Get(applied).items
       IN  /\ Len(items) > FingerprintMaxItems
           /\ items[FingerprintMaxItems].title = TitleFoo
           /\ compute_fingerprint(WithTitle(items, FingerprintMaxItems, TitleBar))
                  # Get(applied).result
           /\ compute_fingerprint(WithTitle(items, FingerprintMaxItems, TitleLowerFoo))
                  = Get(applied).result

(***************************************************************************)
(* C16: the fingerprint of the empty list is the digest of the literal     *)
(* marker "empty", and the fingerprint of a list that is not empty is      *)
(* never that digest.                                                      *)
(***************************************************************************)
C16_EmptyListHasItsOwnFingerprint ==
    IsFingerprintCall
        => /\ Get(applied).items = << >>
                 => Get(applied).result = Sha256("literal:empty", << >>)
           /\ Get(applied).items # << >>
                 => /\ Get(applied).result # Sha256("literal:empty", << >>)
                    /\ Get(applied).result # compute_fingerprint(<< >>)

C16_Witness ==
    /\ IsFingerprintCall
    /\ Get(applied).items = << >>
    /\ Get(applied).result = Sha256("literal:empty", << >>)

(***************************************************************************)
(* C17: every invocation of lambda_handler ends by returning a structured  *)
(* result: statusCode 200 with the summary (status, sources_checked,       *)
(* changes_detected, errors, duration_seconds, timestamp) when run_monitor *)
(* returns, statusCode 500 with the error when run_monitor raises (the     *)
(* source list cannot be loaded, the digest call raises).                  *)
(***************************************************************************)
\* an invocation has ended and none is under way
InvocationEnded == pc = "idle" /\ runs > 0

\* run_monitor raised: before its try block, or inside it
RunMonitorRaised ==
    \/ returning = NoRecord
    \/ Get(returning).kind = "exception"

C17_HandlerAlwaysReturnsStructuredResult ==
    InvocationEnded
        => /\ response # NoRecord
           /\ "statusCode" \in DOMAIN Get(response)
           /\ IF RunMonitorRaised
              THEN /\ Get(response).statusCode = 500
                   /\ DOMAIN Get(response).body = {"error"}
              ELSE /\ Get(response).statusCode = 200
                   /\ DOMAIN Get(response).body =
                         {"status", "sources_checked", "changes_detected",
                          "errors", "duration_seconds", "timestamp"}
                   /\ Get(response).body = Get(returning).summary
                   /\ Get(response).body.sources_checked = Len(sources)

C17_Witness ==
    /\ InvocationEnded
    /\ returning # NoRecord
    /\ Get(returning).kind = "exception"
    /\ publish = "raised"
    /\ Get(response).statusCode = 500

(***************************************************************************)
(* C18: when the fetch returns content and the adapter extracts no item,   *)
(* process_source returns no change record and does not call update_state: *)
(* the stored item of the source is the one from before the task, and a    *)
(* source with no stored item still has none.                              *)
(***************************************************************************)
\* the fetch of the task returned content, from which its adapter extracted nothing
ExtractedNothing(i) ==
    /\ Done(i)
    /\ GotContent(i)
    /\ ~get_adapter_raises(sources[i].adapter)
    /\ ExtractedItems(i) = << >>

C18_NoItemsLeavesState ==
    \A i \in Tasks :
        ExtractedNothing(i)
            => /\ task[i].result = NoRecord
               /\ task[i].write = None
               /\ Stored(i) = task[i].pre

C18_Witness ==
    \E i, j \in Tasks :
        /\ ExtractedNothing(i) /\ task[i].pre # NoRecord
        /\ Stored(i) = task[i].pre
        /\ Get(Stored(i)).last_seen_utc < now
        /\ ExtractedNothing(j) /\ task[j].pre = NoRecord
        /\ Stored(j) = NoRecord

(***************************************************************************)
(* C19 as stated: a failure of the state store does not abort the source.  *)
(* When the read of the prior state fails, the source is processed as one  *)
(* without prior state (it is fetched, unconditionally, and what it        *)
(* extracts is reported as new); when the write fails on a changed source, *)
(* the change record is still returned (and so collected into the digest). *)
(***************************************************************************)
ReadFailed(i) == task[i].read \in {"client_error", "raised"}
WriteFailed(i) == task[i].write \in {"client_error", "raised"}

\* the task went on as process_source does for a source that has no stored item
ProcessedAsFirstSeen(i) ==
    /\ task[i].request = Some(RequestHeaders(None, None))
    /\ Fetched(i)
    /\ ExtractedItems(i) # << >>
          => (task[i].write # None /\ (~WriteFailed(i) => HasResult(i)))
    /\ HasResult(i) => Get(task[i].result).is_new

\* the items the task extracted do not fingerprint to what get_state returned
FoundChanged(i) ==
    /\ ExtractedItems(i) # << >>
    /\ ~SameFingerprint(compute_fingerprint(ExtractedItems(i)),
                        PrevFingerprint(task[i].prev_state))

C19_StoreFailureDoesNotAbort ==
    \A i \in Tasks :
        (pc = "gather" /\ Done(i) /\ ~task[i].escaped)
            => /\ ReadFailed(i) => ProcessedAsFirstSeen(i)
               /\ WriteFailed(i) /\ FoundChanged(i) => HasResult(i)

(***************************************************************************)
(* C20 as stated: whatever the adapter type, extract leaves out every      *)
(* entry that has no title (missing or blank): the result has one item per *)
(* titled entry, each with a non-empty title, and a document whose only    *)
(* entry has no title yields the empty list.                               *)
(***************************************************************************)
IsExtractCall == applied # NoRecord /\ Get(applied).fn = "extract"

HasTitle(entry) == Strip(entry.title) # << >>

\* the entries extract looks at and can parse
Considered(content, source) ==
    IF content.raises # None THEN << >>
    ELSE SelectSeq(Take(content.entries, _get_max_items(source)),
                   LAMBDA entry : ~entry.broken)

\* the result has one item per titled entry, in order, each with a title
OmitsUntitled(content, source, result) ==
    /\ Len(result) = Len(SelectSeq(Considered(content, source), HasTitle))
    /\ \A k \in 1..Len(result) : result[k].title # << >>

Followed == DOMAIN history
\* the last run returned a change record for the source and its digest was
\* not delivered
UndeliveredBefore(i) == i \in Followed /\ history[i].undelivered # NoRecord
\* this run has extracted the items of that record again
SameAsUndelivered(i) ==
    /\ pc = "gather" /\ Done(i)
    /\ UndeliveredBefore(i)
    /\ GotContent(i)
    /\ ExtractedItems(i) = Get(history[i].undelivered)

C21_UndeliveredChangeIsNotReportedAgain ==
    \A i \in Tasks : SameAsUndelivered(i) => ~HasResult(i)

(***************************************************************************)
(* C21 amended: when the state write of a changed source succeeds, the     *)
(* stored fingerprint is that of its items whether or not the digest is    *)
(* delivered; and when the digest is not delivered and the next run reads  *)
(* that state and extracts the same items, the next run returns no change  *)
(* record for the source.  (A write or a read that fails with ClientError  *)
(* makes the next run report the source again.)                            *)
(***************************************************************************)
C21_StateIsWrittenWhateverTheDigest ==
    \A i \in Tasks :
        /\ (AfterGather /\ UndeliveredBefore(i) /\ wrote[i] # NoRecord)
              => /\ Stored(i) # NoRecord
                 /\ Get(Stored(i)).fingerprint = compute_fingerprint(Get(wrote[i]))
        /\ (SameAsUndelivered(i) /\ prior[i] # NoRecord /\ task[i].read = "ok")
              => /\ ~HasResult(i)
                 /\ task[i].outcome \in {"unchanged", "exception"}

C21_Witness ==
    \E i \in Tasks :
        /\ SameAsUndelivered(i) /\ prior[i] # NoRecord /\ task[i].read = "ok"
        /\ task[i].outcome = "unchanged"
        /\ ~HasResult(i)

(***************************************************************************)
(* C22 as stated: the digest body holds every change record exactly once,  *)
(* under the section of its organization, marked [NEW SOURCE] when is_new  *)
(* and [UPDATED] otherwise, with at most 5 of its items, and the sections  *)
(* are in ascending alphabetical order of the organizations.               *)
(***************************************************************************)
IsBuildMessageCall == applied # NoRecord /\ Get(applied).fn = "_build_message"

RECURSIVE TitlesListed(_)
\* the titles of the item lines up to the next change, section or banner
TitlesListed(lines) ==
    IF lines = << >> \/ Head(lines)[1] \in {"change", "org", "rule", "banner"} THEN << >>
    ELSE (IF Head(lines)[1] = "item" THEN << Head(lines)[3] >> ELSE << >>)
            \o TitlesListed(Tail(lines))

RECURSIVE Listed(_, _)
\* what the body shows: per change line, the section it stands in, its mark,
\* its name and the titles listed under it
Listed(lines, org) ==
    IF lines = << >> THEN << >>
    ELSE IF Head(lines)[1] = "org" THEN Listed(Tail(lines), Head(lines)[2])
    ELSE IF Head(lines)[1] = "change"
    THEN << [org |-> org, mark |-> Head(lines)[2], name |-> Head(lines)[3],
             titles |-> TitlesListed(Tail(lines))] >> \o Listed(Tail(lines), org)
    ELSE Listed(Tail(lines), org)

\* the organizations of the sections, in the order of the body
Sections(lines) ==
    LET heads == SelectSeq(lines, LAMBDA line : line[1] = "org")
    IN  [k \in 1..Len(heads) |-> heads[k][2]]

\* how a change record is to be shown
Shown(change) ==
    [org |-> change.org,
     mark |-> IF change.is_new = TRUE THEN "[NEW SOURCE]" ELSE "[UPDATED]",
     name |-> change.name,
     titles |-> [k \in 1..Min(Len(change.items), 5) |-> change.items[k].title]]

Occurrences(seq, x) == Cardinality({k \in DOMAIN seq : seq[k] = x})

EveryRecordOnceUnderItsOrganization(changes, body) ==
    LET shown == [k \in DOMAIN changes |-> Shown(changes[k])]
        listed == Listed(body, None)
    IN  /\ Len(listed) = Len(changes)
        /\ \A k \in DOMAIN shown : Occurrences(listed, shown[k]) = Occurrences(shown, shown[k])
        /\ \A k \in DOMAIN listed : Len(listed[k].titles) <= 5
        /\ {Sections(body)[k] : k \in DOMAIN Sections(body)} = {changes[k].org : k \in DOMAIN changes}

\* dictionary order: letter by letter, whatever the case
Letters(org) == [k \in 1..Len(Spelling[org]) |-> Letter(Spelling[org][k])]
AlphabeticallyBefore(a, b) == SeqLess(Letters(a), Letters(b))

C22_DigestSectionsAlphabetical ==
    IsBuildMessageCall =>
        LET body == Get(applied).result
        IN  /\ EveryRecordOnceUnderItsOrganization(Get(applied).changes, body)
            /\ \A j, k \in DOMAIN Sections(body) :
                   j < k => AlphabeticallyBefore(Sections(body)[j], Sections(body)[k])

(***************************************************************************)
(* C22 amended: the same, the sections being in ascending order of the     *)
(* organizations as strings (code point by code point, so that every name  *)
(* that starts with a capital comes before every name that starts with a   *)
(* small letter).                                                          *)
(***************************************************************************)
C22_DigestSectionsInStringOrder ==
    IsBuildMessageCall =>
        LET body == Get(applied).result
        IN  /\ EveryRecordOnceUnderItsOrganization(Get(applied).changes, body)
            /\ \A j, k \in DOMAIN Sections(body) :
                   j < k => StrLess(Sections(body)[j], Sections(body)[k])

C22_Witness ==
    /\ IsBuildMessageCall
    /\ LET changes == Get(applied).changes
           body == Get(applied).result
       IN  /\ Len(changes) = 2
           /\ changes[1].org = "orgC" /\ changes[1].is_new /\ Len(changes[1].items) > 5
           /\ changes[2].org = "Unknown" /\ ~changes[2].is_new
           /\ Sections(body) = << "Unknown", "orgC" >>
           /\ Len(Listed(body, None)[2].titles) = 5

(***************************************************************************)
(* C23 as stated: whenever the state of a source is stored and a change of *)
(* the source has been recorded, the stored last_item_key is the id (else  *)
(* link) of the first item at the most recent run in which the fingerprint *)
(* changed; a later run that finds the fingerprint unchanged leaves it.    *)
(***************************************************************************)
C23_LastItemKeyIsThatOfLastChange ==
    \A i \in Followed :
        (Stored(i) # NoRecord /\ history[i].changed_key # NoRecord)
            => Get(Stored(i)).last_item_key = Get(history[i].changed_key)

(***************************************************************************)
(* C24: in the summary of every run that completes, sources_checked is the *)
(* length of the loaded source list, whatever became of the sources, and   *)
(* changes_detected is the number of change records the tasks returned,    *)
(* which is the number of records handed to send_digest.                   *)
(***************************************************************************)
RunCompleted == RunEnded /\ Get(returning).kind = "summary"

C24_SummaryCountsSourcesAndChanges ==
    RunCompleted =>
        LET summary == Get(response).body
        IN  /\ summary = Get(returning).summary
            /\ summary.sources_checked = Len(sources)
            /\ summary.changes_detected = Len(RecordsFrom(1))
            /\ IF digests = << >> THEN summary.changes_detected = 0
               ELSE summary.changes_detected = Len(digests[1])

C24_Witness ==
    /\ RunCompleted
    /\ \E i, j \in Tasks : task[i].escaped /\ HasResult(j)
    /\ Get(response).body.sources_checked = 2
    /\ Get(response).body.changes_detected = 1
    /\ Len(digests) = 1 /\ Len(digests[1]) = 1

(***************************************************************************)
(* C25: an invocation whose load of the source list fails is aborted: no   *)
(* task is started (no state read, no fetch, no state write), send_digest  *)
(* is not called, and lambda_handler returns a failure result (status 500  *)
(* with the error), not a summary.                                         *)
(***************************************************************************)
\* the step of an invocation that does not get past load_sources
LoadFails == pc = "idle" /\ pc' = "idle" /\ runs' = runs + 1

C25_FailedLoadAbortsRun ==
    [][LoadFails =>
          /\ table' = table
          /\ \A i \in Tasks : task'[i] = PendingTask
          /\ session' = "none"
          /\ digests' = << >> /\ publish' = None
          /\ returning' = NoRecord
          /\ Get(response').statusCode = 500
          /\ DOMAIN Get(response').body = {"error"}]_vars

C25_Witness ==
    /\ pc = "idle" /\ runs = 2 /\ returning = NoRecord
    /\ \E id \in SourceIds : table[id] # NoRecord
    /\ \A i \in Tasks : task[i] = PendingTask
    /\ Get(response).statusCode = 500

(***************************************************************************)
(* C26: for every adapter type and every content, extract returns (it      *)
(* never raises): the empty list when parsing the document fails, and      *)
(* otherwise at most max_items items, each the item of one of the first    *)
(* max_items entries of the document, in document order, an entry that     *)
(* cannot be parsed being left out.                                        *)
(***************************************************************************)
\* what the adapter makes of one entry on its own: no item or one
ItemOf(adapter_type, entry, source) ==
    Extract(adapter_type, Document(None, FALSE, << entry >>),
            [source EXCEPT !.max_items = NoRecord])

RECURSIVE IsSubsequence(_, _)
\* a is b with some elements left out
IsSubsequence(a, b) ==
    IF a = << >> THEN TRUE
    ELSE IF b = << >> THEN FALSE
    ELSE IF Head(a) = Head(b) /\ IsSubsequence(Tail(a), Tail(b)) THEN TRUE
    ELSE IsSubsequence(a, Tail(b))

C26_ExtractNeverRaisesAndIsCapped ==
    IsExtractCall =>
        LET call == Get(applied)
            max_items == _get_max_items(call.source)
            first == Take(call.content.entries, max_items)
            made == [k \in 1..Len(first) |-> ItemOf(call.adapter, first[k], call.source)]
        IN  /\ call.outcome.raised = None
            /\ call.outcome.value = call.result
            /\ call.content.raises # None => call.result = << >>
            /\ Len(call.result) <= max_items
            /\ IsSubsequence(call.result, Flatten(made))
            /\ \A k \in 1..Len(first) : first[k].broken => made[k] = << >>

C26_Witness ==
    /\ IsExtractCall
    /\ LET call == Get(applied)
       IN  /\ call.source.max_items = Some(1)
           /\ Len(call.content.entries) = 2
           /\ call.content.entries[1].broken
           /\ ItemOf(call.adapter, call.content.entries[2], call.source) # << >>
           /\ call.outcome = Return(<< >>)

(***************************************************************************)
(* C27: a state write replaces the whole stored item: after it the stored  *)
(* etag and last_modified are those of the response just fetched (none     *)
(* where the response carries none, whatever was stored before), the       *)
(* stored last_seen_utc and last_item_key are those of this write; and the *)
(* next request for the source carries no If-None-Match (If-Modified-      *)
(* Since) when the response of the last write carried no ETag              *)
(* (Last-Modified).                                                        *)
(***************************************************************************)
\* the response header as it is stored: a missing or empty one is left out
Kept(validator) == IF Truthy(validator) THEN validator ELSE None

\* the task has just written the state of its source
JustWrote(i) == pc = "gather" /\ Done(i) /\ task[i].write = "ok"

C27_WriteReplacesWholeItem ==
    \A i \in Followed :
        /\ history[i].written # NoRecord
              => /\ Stored(i) # NoRecord
                 /\ Get(Stored(i)).etag = Kept(Get(history[i].written).etag)
                 /\ Get(Stored(i)).last_modified = Kept(Get(history[i].written).last_modified)
        /\ JustWrote(i)
              => /\ Get(Stored(i)).etag = Kept(FetchOf(i).etag)
                 /\ Get(Stored(i)).last_modified = Kept(FetchOf(i).last_modified)
                 /\ Get(Stored(i)).last_seen_utc = now
                 /\ Get(Stored(i)).last_item_key =
                        IF task[i].outcome = "changed" THEN LastItemKey(task[i].items) ELSE None
        /\ (pc = "gather" /\ task[i].pc = "fetching" /\ history[i].written # NoRecord)
              => /\ ~Truthy(Get(history[i].written).etag)
                        => Get(task[i].request).if_none_match = None
                 /\ ~Truthy(Get(history[i].written).last_modified)
                        => Get(task[i].request).if_modified_since = None

\* a response without ETag removes the stored one and leaves Last-Modified
C27_Witness ==
    \E i \in Followed :
        /\ JustWrote(i)
        /\ task[i].pre # NoRecord
        /\ Get(task[i].pre).etag = "E1"
        /\ FetchOf(i).etag = None /\ FetchOf(i).last_modified = "L1"
        /\ Get(Stored(i)).etag = None /\ Get(Stored(i)).last_modified = "L1"

(***************************************************************************)
(* C28: starting from an empty table, in every state every stored item has *)
(* a fingerprint, which is not the fingerprint of the empty list and is    *)
(* the fingerprint of the items extracted in the most recent run of the    *)
(* source whose state write succeeded; nothing is stored for a source      *)
(* before such a run.                                                      *)
(***************************************************************************)
\* the value is not None (compared as printed: a digest is not a string)
IsDigest(fingerprint) == ToString(fingerprint) # ToString(None)

C28_StoredFingerprintIsThatOfLastWrite ==
    /\ \A i \in Followed :
           IF history[i].written = NoRecord THEN Stored(i) = NoRecord
           ELSE /\ Stored(i) # NoRecord
                /\ IsDigest(Get(Stored(i)).fingerprint)
                /\ Get(Stored(i)).fingerprint # EmptyFingerprint
                /\ Get(Stored(i)).fingerprint =
                       compute_fingerprint(Get(history[i].written).items)
    /\ \A id \in DOMAIN table :
           (\A i \in Tasks : sources[i].id # id) => table[id] = NoRecord

\* a later run that extracted other items and could not write them leaves
\* the fingerprint of the last write
C28_Witness ==
    \E i \in Followed :
        /\ pc = "gather" /\ Done(i)
        /\ runs > 1
        /\ task[i].outcome = "changed" /\ task[i].write = "client_error"
        /\ history[i].written # NoRecord
        /\ task[i].items # Get(history[i].written).items
        /\ Get(Stored(i)).fingerprint = compute_fingerprint(Get(history[i].written).items)

(***************************************************************************)
(* C29: over a source list longer than the gates are wide, every request   *)
(* being answered or timing out, every source task finishes and the run    *)
(* returns; a task holds a permit of the fetcher gate only inside a permit *)
(* of the orchestrator gate, every permit taken is given back (none is     *)
(* missing once the tasks are done), and a run under way can always take a *)
(* step.                                                                   *)
(***************************************************************************)
\* the permits out are those of the tasks inside the gates
PermitsAccounted ==
    /\ permits + Cardinality(InProgress) = SemaphoreLimit
    /\ fetch_permits + Cardinality(InFlight) = FetcherConcurrency
    /\ InFlight \subseteq InProgress
    /\ (\A i \in Tasks : task[i].pc = "done")
          => permits = SemaphoreLimit /\ fetch_permits = FetcherConcurrency

RunUnderWay == pc \in {"gather", "finally"}

C29_RunTerminatesAndGatesAreReleased ==
    /\ [](RunUnderWay => PermitsAccounted)
    /\ [](RunUnderWay => ENABLED NextGates)
    /\ (pc = "gather") ~> (\A i \in Tasks : task[i].pc = "done")
    /\ (pc = "gather") ~> (pc = "idle")

C29_Witness ==
    /\ RunEnded
    /\ Len(sources) > SemaphoreLimit
    /\ \A i \in Tasks : task[i].pc = "done" /\ IssuedFetch(i)
    /\ permits = SemaphoreLimit /\ fetch_permits = FetcherConcurrency

(***************************************************************************)
(* C30: in every step of a run, send_digest is called only when every      *)
(* source task has terminated, and with the change records of all the      *)
(* sources in source-list order; the fetcher session is closed only once   *)
(* the digest dispatch is over (run_monitor has its summary or the         *)
(* exception of the dispatch in hand); and once the session is closed no   *)
(* task fetches and no item of the table changes in that run.              *)
(***************************************************************************)
DispatchOver == pc = "finally" /\ returning # NoRecord

C30_PhasesInOrder ==
    [][/\ (digests' # digests /\ digests' # << >>)
            => /\ pc = "gather"
               /\ \A i \in Tasks : task[i].pc = "done"
               /\ digests' = << RecordsFrom(1) >>
       /\ (session # "closed" /\ session' = "closed") => DispatchOver
       /\ session = "closed"
            => /\ pc = "idle"
               /\ table' = table
               /\ \A i \in Tasks : task'[i].pc # "fetching" /\ task'[i].write = None
      ]_vars

C30_Witness ==
    /\ RunEnded
    /\ session = "closed"
    /\ publish = "raised"
    /\ Len(digests) = 1 /\ Len(digests[1]) = 2
    /\ \A i \in Tasks : wrote[i] # NoRecord
=============================================================================
